---- MODULE Spec2Model ----
(***************************************************************************)
(* Gonagri backend: the request pipeline (app.ts), the validation schemas  *)
(* (routes), the controllers, the two data-access modules, the relational  *)
(* store they write to and the import-time pool start-up (config/db.ts).   *)
(*                                                                         *)
(* Strings are sequences of one-character strings, so that trimming,       *)
(* lowercasing and the e-mail syntax check are computed, not assumed.      *)
(***************************************************************************)
EXTENDS Integers, Sequences, FiniteSets, TLC

(***************************************************************************)
(* Bounds of the model (not program constants).                            *)
(***************************************************************************)
MaxReq == 2          \* request slots of the pipeline specification
MaxTime == 1         \* the store clock runs 0..MaxTime
MaxSeq == 3          \* the id sequences are not advanced beyond this value
MaxAdmin == 1        \* administrative operations run at most this often
MaxOther == 2        \* requests of the second client per window (limiter specification)
MaxWrites == 1       \* rows inserted per table (limiter specification)
MaxCalls == 2        \* getPool calls of a behaviour
MaxRetries == 3      \* largest retry count handed to testConnection
MaxPages == 2        \* listing queries of a behaviour
MaxLimit == 2        \* largest LIMIT and OFFSET of a listing query
MaxPosts == 2        \* subscribe and contact requests per window (limiter specification)

(***************************************************************************)
(* Program constants.                                                      *)
(***************************************************************************)
NameMax == 100       \* contact.routes.ts: name .max(100)
MessageMax == 5000   \* contact.routes.ts: message .max(5000)
ApiMax == 100        \* apiLimiter: 100 requests per window, all routes
AuthMax == 50        \* authLimiter: 50 requests per window, subscribe/contact
TestRetries == 5     \* config/db.ts: testConnection(5, 2000)
TestDelay == 2000    \* config/db.ts: testConnection(5, 2000), milliseconds

(***************************************************************************)
(* Strings.                                                                *)
(***************************************************************************)
UpperChars == {"A", "U", "X"}
LowerChars == {"a", "u", "x", "c", "o", "h", "i", "n"}
Letters == UpperChars \cup LowerChars
Whitespace == {" "}

\* String.prototype.toLowerCase on one character
LowerChar(c) ==
  CASE c = "A" -> "a"
    [] c = "U" -> "u"
    [] c = "X" -> "x"
    [] OTHER -> c

\* zod .toLowerCase(): input.data.toLowerCase()
toLowerCase(s) == [i \in 1..Len(s) |-> LowerChar(s[i])]

\* zod .trim(): input.data.trim() strips leading and trailing white space
trim(s) ==
  LET keep == {i \in 1..Len(s) : s[i] \notin Whitespace}
  IN IF keep = {} THEN <<>>
     ELSE LET lo == CHOOSE i \in keep : \A j \in keep : i <= j
              hi == CHOOSE i \in keep : \A j \in keep : j <= i
          IN SubSeq(s, lo, hi)

Rep(c, n) == [i \in 1..n |-> c]

\* zod .email(): the library's e-mail pattern, case-insensitive,
\*   ^(?!\.)(?!.*\.\.)([A-Z0-9_'+\-\.]*)[A-Z0-9_+-]@([A-Z0-9][A-Z0-9\-]*\.)+[A-Z]{2,}$
\* over the model's alphabet (letters, ".", "@", " ").
IsEmail(s) ==
  LET ats == {i \in 1..Len(s) : s[i] = "@"}
  IN /\ Cardinality(ats) = 1
     /\ LET k == CHOOSE i \in ats : TRUE
            local == SubSeq(s, 1, k - 1)
            domain == SubSeq(s, k + 1, Len(s))
            dots == {i \in 1..Len(domain) : domain[i] = "."}
        IN /\ Len(local) >= 1
           /\ \A i \in 1..Len(local) : local[i] \in Letters \cup {"."}
           /\ local[1] # "."
           /\ local[Len(local)] \in Letters
           /\ \A i \in 1..(Len(s) - 1) : ~(s[i] = "." /\ s[i + 1] = ".")
           /\ \A i \in 1..Len(domain) : domain[i] \in Letters \cup {"."}
           /\ dots # {}
           /\ domain[1] # "."
           /\ LET d == CHOOSE i \in dots : \A j \in dots : j <= i
              IN Len(domain) - d >= 2

(***************************************************************************)
(* Error taxonomy (utils/ApiError.ts).  An error value carries whether it  *)
(* is an instance of ApiError, its statusCode/code (ApiError) or its       *)
(* driver code (pg error) and its message.                                 *)
(***************************************************************************)
NoError == [isApiError |-> FALSE, statusCode |-> 0, code |-> "", message |-> ""]

ApiError(message, statusCode, code) ==
  [isApiError |-> TRUE, statusCode |-> statusCode, code |-> code, message |-> message]

ValidationError(message) == ApiError(message, 400, "VALIDATION_ERROR")
NotFoundError(message) == ApiError(message, 404, "NOT_FOUND")
ConflictError(message) == ApiError(message, 409, "CONFLICT")
UnauthorizedError(message) == ApiError(message, 401, "UNAUTHORIZED")

\* an error thrown by the driver or the runtime: not an ApiError
DriverError(code, message) ==
  [isApiError |-> FALSE, statusCode |-> 0, code |-> code, message |-> message]

UniqueViolation == DriverError("23505", "duplicate key value violates unique constraint")
ConnectionRefused == DriverError("ECONNREFUSED", "connect ECONNREFUSED")
UndefinedPoolError == DriverError("", "Cannot read properties of undefined (reading 'query')")
PoolInitError == DriverError("", "[DB] No valid database configuration provided")

(***************************************************************************)
(* Request bodies.  has is the set of keys present in the parsed body.     *)
(***************************************************************************)
Body(has, name, email, message) ==
  [has |-> has, name |-> name, email |-> email, message |-> message]

EmptyBody == Body({}, <<>>, <<>>, <<>>)

\* the result of schema.parse: the transformed value, or the issues in order
ParseResult(issues, data) == [success |-> issues = <<>>, issues |-> issues, data |-> data]

(***************************************************************************)
(* waitlist.routes.ts: subscribeSchema = z.object({ email:                 *)
(*   z.string().email('Invalid email format') })                           *)
(***************************************************************************)
subscribeSchemaNoEmailCheck(body) ==
  ParseResult(IF "email" \notin body.has THEN <<"Required">> ELSE <<>>,
              Body({"email"}, <<>>, body.email, <<>>))

subscribeSchema(body) ==
  LET issues ==
        IF "email" \notin body.has THEN <<"Required">>
        ELSE IF ~IsEmail(body.email) THEN <<"Invalid email format">>
        ELSE <<>>
  IN ParseResult(issues, Body({"email"}, <<>>, body.email, <<>>))

(***************************************************************************)
(* contact.routes.ts: contactSchema.  A zod string runs its checks in the  *)
(* order they are chained, each on the value as transformed so far:        *)
(*   name    .min(1) .max(100) .trim()                                     *)
(*   email   .min(1) .email()  .toLowerCase()                              *)
(*   message .min(1) .max(5000) .trim()                                    *)
(* and the object reports the issues of its keys in the order of the shape.*)
(***************************************************************************)
Issue(cond, message) == IF cond THEN <<message>> ELSE <<>>

nameIssuesNoMax(body) ==
  IF "name" \notin body.has THEN <<"Required">>
  ELSE Issue(Len(body.name) < 1, "Name is required")

nameIssues(body) ==
  IF "name" \notin body.has THEN <<"Required">>
  ELSE Issue(Len(body.name) < 1, "Name is required")
       \o Issue(Len(body.name) > NameMax, "Name must be 100 characters or less")

emailIssues(body) ==
  IF "email" \notin body.has THEN <<"Required">>
  ELSE Issue(Len(body.email) < 1, "Email is required")
       \o Issue(~IsEmail(body.email), "Invalid email format")

messageIssues(body) ==
  IF "message" \notin body.has THEN <<"Required">>
  ELSE Issue(Len(body.message) < 1, "Message is required")
       \o Issue(Len(body.message) > MessageMax, "Message must be 5000 characters or less")

contactSchema(body) ==
  ParseResult(nameIssues(body) \o emailIssues(body) \o messageIssues(body),
              Body({"name", "email", "message"},
                   trim(body.name), toLowerCase(body.email), trim(body.message)))

(***************************************************************************)
(* validate.middleware.ts: validateRequest(schema)(req, res, next).        *)
(* parsed is schema.parse(req.body); the outcome is the new req.body and   *)
(* the argument of next (NoError for next()); body is req.body.            *)
(***************************************************************************)
validateRequestForwardsInvalid(body, parsed) ==
  [body |-> parsed.data, err |-> NoError]

validateRequest(body, parsed) ==
  IF parsed.success
  THEN [body |-> parsed.data, err |-> NoError]
  ELSE [body |-> body,
        err |-> ValidationError(IF Len(parsed.issues) > 0 THEN parsed.issues[1]
                                ELSE "Validation failed")]

(***************************************************************************)
(* The relational store (docs/DATABASE.md, schema):                        *)
(*   subscribers(id SERIAL PRIMARY KEY, email VARCHAR(255) UNIQUE NOT NULL,*)
(*               created_at TIMESTAMP DEFAULT CURRENT_TIMESTAMP)           *)
(*   contact_messages(id SERIAL PRIMARY KEY, name VARCHAR(100) NOT NULL,   *)
(*               email VARCHAR(255) NOT NULL, message TEXT NOT NULL,       *)
(*               created_at TIMESTAMP DEFAULT CURRENT_TIMESTAMP)           *)
(* An INSERT draws the next id from the table's sequence (the value is     *)
(* consumed whether or not the row is stored), then the constraints are    *)
(* checked.  VARCHAR comparison is exact: it distinguishes case.           *)
(***************************************************************************)
EmailColumnMax == 255
NameColumnMax == 100

QueryResult(err, rows) == [err |-> err, rows |-> rows]
NoResult == QueryResult(NoError, <<>>)

StringTooLong == DriverError("22001", "value too long for type character varying")

SubscriberRow(id, email, created_at) ==
  [id |-> id, email |-> email, created_at |-> created_at]

ContactRow(id, name, email, message, created_at) ==
  [id |-> id, name |-> name, email |-> email, message |-> message,
   created_at |-> created_at]

\* the outcome of INSERT INTO subscribers (email) VALUES ($1) RETURNING ...
\* on table rows with the new row's id drawn as id, at time t
InsertSubscriberNoUnique(rows, id, email, t) ==
  [result |-> QueryResult(NoError, <<SubscriberRow(id, email, t)>>),
   rows |-> rows \cup {SubscriberRow(id, email, t)}]

InsertSubscriber(rows, id, email, t) ==
  IF Len(email) > EmailColumnMax
  THEN [result |-> QueryResult(StringTooLong, <<>>), rows |-> rows]
  ELSE IF \E row \in rows : row.id = id \/ row.email = email
  THEN [result |-> QueryResult(UniqueViolation, <<>>), rows |-> rows]
  ELSE [result |-> QueryResult(NoError, <<SubscriberRow(id, email, t)>>),
        rows |-> rows \cup {SubscriberRow(id, email, t)}]

\* the outcome of INSERT INTO contact_messages (name, email, message) ...
InsertContactMessage(rows, id, name, email, message, t) ==
  IF Len(name) > NameColumnMax \/ Len(email) > EmailColumnMax
  THEN [result |-> QueryResult(StringTooLong, <<>>), rows |-> rows]
  ELSE IF \E row \in rows : row.id = id
  THEN [result |-> QueryResult(UniqueViolation, <<>>), rows |-> rows]
  ELSE [result |-> QueryResult(NoError, <<ContactRow(id, name, email, message, t)>>),
        rows |-> rows \cup {ContactRow(id, name, email, message, t)}]

(***************************************************************************)
(* subscriber.model.ts addSubscriber, the catch block: the driver's        *)
(* unique-violation code becomes a ConflictError, anything else is thrown  *)
(* again unchanged.                                                        *)
(***************************************************************************)
addSubscriberCatchWrongCode(error) ==
  IF error.code = "23503"
  THEN ConflictError("Email is already subscribed to the waitlist")
  ELSE error

\* a catch block that takes every failure for a duplicate
addSubscriberCatchAll(error) ==
  ConflictError("Email is already subscribed to the waitlist")

addSubscriberCatch(error) ==
  IF error.code = "23505"
  THEN ConflictError("Email is already subscribed to the waitlist")
  ELSE error

(***************************************************************************)
(* Responses.  shape is the form of the body sent:                         *)
(*   "none"       nothing sent yet                                         *)
(*   "success"    {success: true, data}                                    *)
(*   "error"      {success: false, error: {code, message}[, stack]}        *)
(*   "rate_limit" {statusCode, message}                                    *)
(*   "text"       res.sendStatus: the status text                          *)
(***************************************************************************)
Response(status, shape, data, code, message, stack) ==
  [status |-> status, shape |-> shape, data |-> data, code |-> code,
   message |-> message, stack |-> stack]

NoResponse == Response(0, "none", <<>>, "", "", FALSE)

Created(row) == Response(201, "success", <<row>>, "", "", FALSE)

\* error.middleware.ts errorHandler: the response for err under NODE_ENV env
errorHandlerAlways500(err, env) ==
  Response(500, "error", <<>>, "INTERNAL_ERROR", "Internal Server Error",
           env = "development")

errorHandlerAlwaysStack(err, env) ==
  IF err.isApiError
  THEN Response(err.statusCode, "error", <<>>, err.code, err.message, TRUE)
  ELSE Response(500, "error", <<>>, "INTERNAL_ERROR", "Internal Server Error", TRUE)

errorHandler(err, env) ==
  IF err.isApiError
  THEN Response(err.statusCode, "error", <<>>, err.code, err.message,
                env = "development")
  ELSE Response(500, "error", <<>>, "INTERNAL_ERROR", "Internal Server Error",
                env = "development")

\* a 404 sent as the status text, as express does without a 404 handler
notFoundResponsePlain ==
  Response(404, "text", <<>>, "", "Not Found", FALSE)

\* app.ts: the 404 handler
notFoundResponse ==
  Response(404, "error", <<>>, "NOT_FOUND", "Route not found", FALSE)

\* health.routes.ts: GET /health
healthResponseChecksStore(up, t) ==
  IF up
  THEN Response(200, "success", <<[status |-> "ok", timestamp |-> t]>>, "", "", FALSE)
  ELSE Response(503, "success", <<[status |-> "degraded", timestamp |-> t]>>, "", "", FALSE)

healthResponse(up, t) ==
  Response(200, "success", <<[status |-> "ok", timestamp |-> t]>>, "", "", FALSE)

\* security.middleware.ts: the rejection of a rate limiter
rateLimitResponse ==
  Response(429, "rate_limit", <<>>, "",
           "Too many requests from this IP, please try again later.", FALSE)

(***************************************************************************)
(* State.                                                                  *)
(***************************************************************************)
VARIABLES
  reqs,                     \* the requests: request slot -> its record
  subscribers,              \* table subscribers: a set of rows
  subscribers_id_seq,       \* sequence subscribers_id_seq: the last value drawn
  contact_messages,         \* table contact_messages: a set of rows
  contact_messages_id_seq,  \* sequence contact_messages_id_seq
  now,                      \* the store's clock (CURRENT_TIMESTAMP)
  dbUp,                     \* whether the store accepts connections
  apiHits,                  \* apiLimiter: client -> requests counted in the window
  authHits,                 \* authLimiter: client -> requests counted in the window
  pool,                     \* config/db.ts: let pool
  poolPromise,              \* config/db.ts: let poolPromise
  subscriberPool,           \* subscriber.model.ts: the binding of "import pool"
  testConn,                 \* config/db.ts testConnection: its state and loop index
  listening,                \* server.ts: the listener is bound
  NODE_ENV,                 \* config/env.ts: NODE_ENV
  adminOps,                 \* number of administrative operations run so far
  env,                      \* process.env: the names of the variables that are set
  proc,                     \* the process: "loading" its modules, "running", "exited"
  initCalls,                \* initializePool calls waiting for the connection string
  poolsBuilt,               \* number of Pool objects constructed so far
  calls,                    \* getPool calls: call -> its state and what it got
  checkedOut,               \* clients checked out of the pool and not released
  pages                     \* the pages listed so far, in the order of the queries

\* subscriberPool: models/subscriber.model.ts line 1 imports the default export
\* of config/db.ts.  config/db.ts as it stands exports only { getPool }, so the
\* binding is undefined and pool.query throws a TypeError; the documented
\* config/db.ts (docs/DEVELOPMENT.md, docs/DATABASE.md) exports the pool by
\* default.  Both bindings are kept: a behaviour starts with either one and
\* the binding never changes.
vars == <<reqs, subscribers, subscribers_id_seq, contact_messages,
          contact_messages_id_seq, now, dbUp, apiHits, authHits, pool,
          poolPromise, subscriberPool, testConn, listening, NODE_ENV, adminOps,
          env, proc, initCalls, poolsBuilt, calls, checkedOut, pages>>

storeVars == <<subscribers, subscribers_id_seq, contact_messages,
               contact_messages_id_seq>>
limiterVars == <<apiHits, authHits>>
configVars == <<env, proc>>
poolVars == <<initCalls, poolsBuilt, calls, checkedOut>>
startVars == <<pool, poolPromise, subscriberPool, testConn, listening, NODE_ENV,
               configVars, poolVars, pages>>

Reqs == 1..MaxReq
Calls == 1..MaxCalls

\* a getPool call: "idle" (not made yet), "waiting" on poolPromise, "resolved"
\* with the pool instance got (instances are numbered as they are
\* constructed), or "rejected" with err
IdleCall == [state |-> "idle", at |-> "", got |-> 0, err |-> NoError]
Clients == {"c1", "c2"}
CORS_ORIGIN == "http://localhost:3000"

(***************************************************************************)
(* Requests.  pc is the stage that runs next; ran is the list of stages    *)
(* that have run; after is the set of requests that had been answered      *)
(* when this one arrived, startup the state of the start-up connectivity   *)
(* test at that moment.                                                    *)
(***************************************************************************)
Input(client, method, path, origin, parse, body) ==
  [client |-> client, method |-> method, path |-> path, origin |-> origin,
   parse |-> parse, body |-> body]

Idle ==
  [pc |-> "idle", client |-> "c1", method |-> "GET", path |-> "/health",
   origin |-> "", parse |-> "ok", body |-> EmptyBody, raw |-> EmptyBody,
   err |-> NoError, qres |-> NoResult, res |-> NoResponse,
   cors |-> FALSE, startup |-> "not_started",
   ran |-> <<>>, after |-> {}]

Done(r) == reqs[r].pc = "done"

\* the request moves to stage pc, stage having run
Step(r, stage, pc) ==
  [reqs[r] EXCEPT !.pc = pc, !.ran = Append(@, stage)]

\* the request is answered with res by stage
Send(r, stage, res) ==
  [reqs[r] EXCEPT !.pc = "done", !.ran = Append(@, stage), !.res = res]

\* the stage passes err to next(err)
Throw(r, stage, err) ==
  [reqs[r] EXCEPT !.pc = "errorHandler", !.ran = Append(@, stage), !.err = err]

\* a client sends a request
NewRequest(r, in) ==
  /\ listening
  /\ reqs[r].pc = "idle"
  /\ \A q \in Reqs : q < r => reqs[q].pc # "idle"
  /\ reqs' = [reqs EXCEPT ![r] =
       [Idle EXCEPT !.pc = "securityHeaders", !.client = in.client,
                    !.method = in.method, !.path = in.path, !.origin = in.origin,
                    !.parse = in.parse, !.raw = in.body,
                    !.startup = testConn.state,
                    !.after = {q \in Reqs : Done(q)}]]
  /\ UNCHANGED <<storeVars, now, dbUp, limiterVars, startVars, adminOps>>

(***************************************************************************)
(* app.ts: the middleware chain.                                           *)
(***************************************************************************)
\* app.use(securityHeaders): helmet sets its headers and calls next()
securityHeaders(r) ==
  /\ reqs[r].pc = "securityHeaders"
  /\ reqs' = [reqs EXCEPT ![r] = Step(r, "securityHeaders", "bodyParser")]
  /\ UNCHANGED <<storeVars, now, dbUp, limiterVars, startVars, adminOps>>

\* a body parser that leaves the body empty on failure and calls next()
bodyParserIgnoresFailure(r) ==
  /\ reqs[r].pc = "bodyParser"
  /\ reqs' = [reqs EXCEPT ![r] =
       IF reqs[r].parse = "ok"
       THEN [Step(r, "bodyParser", "cors") EXCEPT !.body = reqs[r].raw]
       ELSE Step(r, "bodyParser", "cors")]
  /\ UNCHANGED <<storeVars, now, dbUp, limiterVars, startVars, adminOps>>

\* an origin check that answers an OPTIONS request only when the origin matches
corsPreflightOnlyIfAllowed(r) ==
  /\ reqs[r].pc = "cors"
  /\ LET allowed == reqs[r].origin = CORS_ORIGIN
     IN reqs' = [reqs EXCEPT ![r] =
          IF reqs[r].method = "OPTIONS" /\ allowed
          THEN [Send(r, "cors", Response(200, "text", <<>>, "", "OK", FALSE))
                  EXCEPT !.cors = allowed]
          ELSE [Step(r, "cors", "apiLimiter") EXCEPT !.cors = allowed]]
  /\ UNCHANGED <<storeVars, now, dbUp, limiterVars, startVars, adminOps>>

\* app.use(express.json({limit: '10kb'})), app.use(express.urlencoded(...))
bodyParser(r) ==
  /\ reqs[r].pc = "bodyParser"
  /\ reqs' = [reqs EXCEPT ![r] =
       IF reqs[r].parse = "ok"
       THEN [Step(r, "bodyParser", "cors") EXCEPT !.body = reqs[r].raw]
       ELSE Throw(r, "bodyParser",
                  DriverError(reqs[r].parse, "request body rejected by the parser"))]
  /\ UNCHANGED <<storeVars, now, dbUp, limiterVars, startVars, adminOps>>

\* an origin check that answers the OPTIONS request and calls next() as well
corsContinuesAfterPreflight(r) ==
  /\ reqs[r].pc = "cors"
  /\ LET allowed == reqs[r].origin = CORS_ORIGIN
     IN reqs' = [reqs EXCEPT ![r] =
          IF reqs[r].method = "OPTIONS"
          THEN [Step(r, "cors", "apiLimiter")
                  EXCEPT !.cors = allowed,
                         !.res = Response(200, "text", <<>>, "", "OK", FALSE)]
          ELSE [Step(r, "cors", "apiLimiter") EXCEPT !.cors = allowed]]
  /\ UNCHANGED <<storeVars, now, dbUp, limiterVars, startVars, adminOps>>

\* an origin check that allows whatever origin the request declares
corsReflectsAnyOrigin(r) ==
  /\ reqs[r].pc = "cors"
  /\ LET allowed == reqs[r].origin # ""
     IN reqs' = [reqs EXCEPT ![r] =
          IF reqs[r].method = "OPTIONS"
          THEN [Send(r, "cors", Response(200, "text", <<>>, "", "OK", FALSE))
                  EXCEPT !.cors = allowed]
          ELSE [Step(r, "cors", "apiLimiter") EXCEPT !.cors = allowed]]
  /\ UNCHANGED <<storeVars, now, dbUp, limiterVars, startVars, adminOps>>

\* app.use(cors): cors.middleware.ts
cors(r) ==
  /\ reqs[r].pc = "cors"
  /\ LET allowed == reqs[r].origin = CORS_ORIGIN
     IN reqs' = [reqs EXCEPT ![r] =
          IF reqs[r].method = "OPTIONS"
          THEN [Send(r, "cors", Response(200, "text", <<>>, "", "OK", FALSE))
                  EXCEPT !.cors = allowed]
          ELSE [Step(r, "cors", "apiLimiter") EXCEPT !.cors = allowed]]
  /\ UNCHANGED <<storeVars, now, dbUp, limiterVars, startVars, adminOps>>

\* app.use(apiLimiter): the global limiter counts the request of the client
apiLimiter(r) ==
  /\ reqs[r].pc = "apiLimiter"
  /\ LET c == reqs[r].client
         hits == apiHits[c] + 1
     IN /\ apiHits' = [apiHits EXCEPT ![c] = hits]
        /\ reqs' = [reqs EXCEPT ![r] =
             IF hits > ApiMax THEN Send(r, "apiLimiter", rateLimitResponse)
             ELSE Step(r, "apiLimiter", "router")]
  /\ UNCHANGED <<storeVars, now, dbUp, authHits, startVars, adminOps>>

\* the mount point a path falls under, and whether the rest of the path is "/"
Mount(path) ==
  CASE path \in {"/health", "/health/"} -> "/health"
    [] path \in {"/v1/waitlist", "/v1/waitlist/"} -> "/v1/waitlist"
    [] path \in {"/v1/contact", "/v1/contact/"} -> "/v1/contact"
    [] OTHER -> "none"

\* the subscribe and contact routers mounted without authLimiter
routerSkipsAuthLimiter(r) ==
  /\ reqs[r].pc = "router"
  /\ LET m == Mount(reqs[r].path)
         next == CASE m = "/health" ->
                        IF reqs[r].method = "GET" THEN "healthRoutes" ELSE "notFound"
                   [] m \in {"/v1/waitlist", "/v1/contact"} ->
                        IF reqs[r].method = "POST" THEN "validate" ELSE "notFound"
                   [] OTHER -> "notFound"
     IN reqs' = [reqs EXCEPT ![r] = Step(r, "router", next)]
  /\ UNCHANGED <<storeVars, now, dbUp, limiterVars, startVars, adminOps>>

\* app.use('/health', healthRoutes), app.use('/v1/waitlist', authLimiter, ...),
\* app.use('/v1/contact', authLimiter, ...), then the 404 handler
router(r) ==
  /\ reqs[r].pc = "router"
  /\ LET m == Mount(reqs[r].path)
         next == CASE m = "/health" ->
                        IF reqs[r].method = "GET" THEN "healthRoutes" ELSE "notFound"
                   [] m \in {"/v1/waitlist", "/v1/contact"} -> "authLimiter"
                   [] OTHER -> "notFound"
     IN reqs' = [reqs EXCEPT ![r] = Step(r, "router", next)]
  /\ UNCHANGED <<storeVars, now, dbUp, limiterVars, startVars, adminOps>>

\* a router whose handler is mounted for every method (router.all('/'))
authLimiterAnyMethod(r) ==
  /\ reqs[r].pc = "authLimiter"
  /\ LET c == reqs[r].client
         hits == authHits[c] + 1
     IN /\ authHits' = [authHits EXCEPT ![c] = hits]
        /\ reqs' = [reqs EXCEPT ![r] =
             IF hits > AuthMax THEN Send(r, "authLimiter", rateLimitResponse)
             ELSE Step(r, "authLimiter", "validate")]
  /\ UNCHANGED <<storeVars, now, dbUp, apiHits, startVars, adminOps>>

\* authLimiter on the subscribe and contact mounts, then router.post('/')
authLimiter(r) ==
  /\ reqs[r].pc = "authLimiter"
  /\ LET c == reqs[r].client
         hits == authHits[c] + 1
     IN /\ authHits' = [authHits EXCEPT ![c] = hits]
        /\ reqs' = [reqs EXCEPT ![r] =
             IF hits > AuthMax THEN Send(r, "authLimiter", rateLimitResponse)
             ELSE IF reqs[r].method = "POST" THEN Step(r, "authLimiter", "validate")
             ELSE Step(r, "authLimiter", "notFound")]
  /\ UNCHANGED <<storeVars, now, dbUp, apiHits, startVars, adminOps>>

\* router.post('/', validateRequest(schema), ...): the validation middleware
validate(r) ==
  /\ reqs[r].pc = "validate"
  /\ LET parsed == IF Mount(reqs[r].path) = "/v1/waitlist"
                   THEN subscribeSchema(reqs[r].body)
                   ELSE contactSchema(reqs[r].body)
         out == validateRequest(reqs[r].body, parsed)
     IN reqs' = [reqs EXCEPT ![r] =
          IF out.err = NoError
          THEN [Step(r, "validate", "controller") EXCEPT !.body = out.body]
          ELSE Throw(r, "validate", out.err)]
  /\ UNCHANGED <<storeVars, now, dbUp, limiterVars, startVars, adminOps>>

\* app.use((req, res) => res.status(404).json(...))
notFound(r) ==
  /\ reqs[r].pc = "notFound"
  /\ reqs' = [reqs EXCEPT ![r] = Send(r, "notFound", notFoundResponse)]
  /\ UNCHANGED <<storeVars, now, dbUp, limiterVars, startVars, adminOps>>

\* health.routes.ts: router.get('/')
healthRoutes(r) ==
  /\ reqs[r].pc = "healthRoutes"
  /\ reqs' = [reqs EXCEPT ![r] = Send(r, "healthRoutes", healthResponse(dbUp, now))]
  /\ UNCHANGED <<storeVars, now, dbUp, limiterVars, startVars, adminOps>>

\* an error handler that answers only the errors it knows and forwards the
\* others with next(err)
errorMiddlewareForwards(r) ==
  /\ reqs[r].pc = "errorHandler"
  /\ reqs' = [reqs EXCEPT ![r] =
       IF reqs[r].err.isApiError
       THEN Send(r, "errorHandler", errorHandler(reqs[r].err, NODE_ENV))
       ELSE Step(r, "errorHandler", "forwarded")]
  /\ UNCHANGED <<storeVars, now, dbUp, limiterVars, startVars, adminOps>>

\* app.use(errorHandler): error.middleware.ts
errorMiddleware(r) ==
  /\ reqs[r].pc = "errorHandler"
  /\ reqs' = [reqs EXCEPT ![r] =
       Send(r, "errorHandler", errorHandler(reqs[r].err, NODE_ENV))]
  /\ UNCHANGED <<storeVars, now, dbUp, limiterVars, startVars, adminOps>>

(***************************************************************************)
(* Controllers and data access.  A controller runs up to its first await   *)
(* (the query handed to the pool), the store executes the statement, and   *)
(* the controller resumes with the result.                                 *)
(***************************************************************************)
IsWaitlist(r) == Mount(reqs[r].path) = "/v1/waitlist"
IsContact(r) == Mount(reqs[r].path) = "/v1/contact"

\* waitlist.controller.ts subscribeToWaitlist -> subscriber.model.ts addSubscriber:
\* pool.query(...) on the module's imported pool binding
subscribeToWaitlist(r) ==
  /\ reqs[r].pc = "controller"
  /\ IsWaitlist(r)
  /\ reqs' = [reqs EXCEPT ![r] =
       IF subscriberPool = "undefined"
       THEN Throw(r, "controller", addSubscriberCatch(UndefinedPoolError))
       ELSE Step(r, "controller", "query")]
  /\ UNCHANGED <<storeVars, now, dbUp, limiterVars, startVars, adminOps>>

\* the store executes INSERT INTO subscribers (email) VALUES ($1) RETURNING ...
addSubscriberQuery(r) ==
  /\ reqs[r].pc = "query"
  /\ IsWaitlist(r)
  /\ IF dbUp
     THEN /\ subscribers_id_seq < MaxSeq
          /\ LET id == subscribers_id_seq + 1
                 out == InsertSubscriber(subscribers, id, reqs[r].body.email, now)
             IN /\ subscribers' = out.rows
                /\ subscribers_id_seq' = id
                /\ reqs' = [reqs EXCEPT ![r] =
                     [Step(r, "query", "resume") EXCEPT !.qres = out.result]]
     ELSE /\ reqs' = [reqs EXCEPT ![r] =
                [Step(r, "query", "resume")
                   EXCEPT !.qres = QueryResult(ConnectionRefused, <<>>)]]
          /\ UNCHANGED <<subscribers, subscribers_id_seq>>
  /\ UNCHANGED <<contact_messages, contact_messages_id_seq, now, dbUp,
                 limiterVars, startVars, adminOps>>

\* addSubscriber after the await (return result.rows[0], or the catch block),
\* then subscribeToWaitlist: res.status(201).json(...) or next(error)
subscribeToWaitlistResume(r) ==
  /\ reqs[r].pc = "resume"
  /\ IsWaitlist(r)
  /\ reqs' = [reqs EXCEPT ![r] =
       IF reqs[r].qres.err = NoError
       THEN Send(r, "resume", Created(reqs[r].qres.rows[1]))
       ELSE Throw(r, "resume", addSubscriberCatch(reqs[r].qres.err))]
  /\ UNCHANGED <<storeVars, now, dbUp, limiterVars, startVars, adminOps>>

\* contact.controller.ts submitContactMessage -> contact.model.ts
\* addContactMessage: const pool = await getPool()
submitContactMessage(r) ==
  /\ reqs[r].pc = "controller"
  /\ IsContact(r)
  /\ pool # "undefined" \/ poolPromise # "pending"
  /\ reqs' = [reqs EXCEPT ![r] =
       IF pool # "undefined" \/ poolPromise = "fulfilled"
       THEN Step(r, "controller", "query")
       ELSE Throw(r, "controller", PoolInitError)]
  /\ UNCHANGED <<storeVars, now, dbUp, limiterVars, startVars, adminOps>>

\* the store executes INSERT INTO contact_messages (name, email, message) ...
addContactMessageQuery(r) ==
  /\ reqs[r].pc = "query"
  /\ IsContact(r)
  /\ IF dbUp
     THEN /\ contact_messages_id_seq < MaxSeq
          /\ LET id == contact_messages_id_seq + 1
                 b == reqs[r].body
                 out == InsertContactMessage(contact_messages, id, b.name, b.email,
                                             b.message, now)
             IN /\ contact_messages' = out.rows
                /\ contact_messages_id_seq' = id
                /\ reqs' = [reqs EXCEPT ![r] =
                     [Step(r, "query", "resume") EXCEPT !.qres = out.result]]
     ELSE /\ reqs' = [reqs EXCEPT ![r] =
                [Step(r, "query", "resume")
                   EXCEPT !.qres = QueryResult(ConnectionRefused, <<>>)]]
          /\ UNCHANGED <<contact_messages, contact_messages_id_seq>>
  /\ UNCHANGED <<subscribers, subscribers_id_seq, now, dbUp, limiterVars,
                 startVars, adminOps>>

\* addContactMessage returns result.rows[0] or throws; submitContactMessage
\* answers 201 or calls next(error)
submitContactMessageResume(r) ==
  /\ reqs[r].pc = "resume"
  /\ IsContact(r)
  /\ reqs' = [reqs EXCEPT ![r] =
       IF reqs[r].qres.err = NoError
       THEN Send(r, "resume", Created(reqs[r].qres.rows[1]))
       ELSE Throw(r, "resume", reqs[r].qres.err)]
  /\ UNCHANGED <<storeVars, now, dbUp, limiterVars, startVars, adminOps>>

\* subscriber.model.ts deleteSubscriberByEmail, run by an administrator:
\* DELETE FROM subscribers WHERE email = $1
deleteSubscriberByEmail(email) ==
  /\ adminOps < MaxAdmin
  /\ adminOps' = adminOps + 1
  /\ subscribers' = IF subscriberPool # "undefined" /\ dbUp
                    THEN {row \in subscribers : row.email # email}
                    ELSE subscribers
  /\ UNCHANGED <<reqs, subscribers_id_seq, contact_messages,
                 contact_messages_id_seq, now, dbUp, limiterVars, startVars>>

(***************************************************************************)
(* The environment: the store goes down or comes back, time passes.        *)
(***************************************************************************)
StoreFlips ==
  /\ dbUp' = ~dbUp
  /\ UNCHANGED <<reqs, storeVars, now, limiterVars, startVars, adminOps>>

Tick ==
  /\ now < MaxTime
  /\ now' = now + 1
  /\ UNCHANGED <<reqs, storeVars, dbUp, limiterVars, startVars, adminOps>>

(***************************************************************************)
(* config/env.ts and config/db.ts at import time, and server.ts.           *)
(*   poolPromise = initializePool().then(p => { testConnection(5, 2000)   *)
(*     .catch(warn); return p }).catch(err => { warn; throw err })         *)
(* and server.ts: app.listen(PORT, ...).                                   *)
(***************************************************************************)
EnvNames == {"DATABASE_URL", "NEON_API_KEY", "NEON_PROJECT_ID", "CORS_ORIGIN"}

\* config/env.ts: the module throws unless CORS_ORIGIN is set and one of
\* DATABASE_URL, NEON_API_KEY is set
envValid(e) ==
  /\ "DATABASE_URL" \in e \/ "NEON_API_KEY" \in e
  /\ "CORS_ORIGIN" \in e

\* the outcomes of the request to the Neon API
FetchOutcomes == {"ok", "failed"}

\* config/db.ts getConnectionString under the environment e, the request to
\* the Neon API (if one is made) ending as fetch: a connection string or an error
getConnectionString(e, fetch) ==
  IF "DATABASE_URL" \in e THEN "connection_string"
  ELSE IF "NEON_API_KEY" \in e /\ "NEON_PROJECT_ID" \in e
  THEN IF fetch = "ok" THEN "connection_string" ELSE "Neon API error"
  ELSE "[DB] No valid database configuration provided"

\* the call testConnection(retries, delay) up to its first attempt
testConnectionCall(p, retries, delay) ==
  [state |-> IF p = "undefined" THEN "failed"
             ELSE IF 0 < retries THEN "connecting" ELSE "ok",
   error |-> IF p = "undefined" THEN "[DB] Pool not initialized" ELSE "",
   i |-> 0, retries |-> retries, delay |-> delay, attempts |-> 0, slept |-> 0]

\* testConnection has not been called
NotTested ==
  [state |-> "not_started", error |-> "", i |-> 0, retries |-> TestRetries,
   delay |-> TestDelay, attempts |-> 0, slept |-> 0]

\* testConnection(5, 2000) succeeded at its first attempt
TestedOk ==
  [NotTested EXCEPT !.state = "ok", !.attempts = 1]

\* testConnection(5, 2000) failed at every attempt
TestedFailed ==
  [NotTested EXCEPT !.state = "failed", !.i = TestRetries - 1,
                    !.error = "[DB] Failed to connect to database after retries",
                    !.attempts = TestRetries,
                    !.slept = (TestRetries - 1) * TestDelay]

\* server.ts imports app, which imports config/env.ts (the mandatory values
\* are checked, the module throws if one is missing and the process ends)
\* and config/db.ts (the import-time initialization of the pool starts)
loadModules ==
  /\ proc = "loading"
  /\ IF envValid(env)
     THEN /\ proc' = "running"
          /\ poolPromise' = "pending"
          /\ initCalls' = initCalls + 1
     ELSE /\ proc' = "exited"
          /\ UNCHANGED <<poolPromise, initCalls>>
  /\ UNCHANGED <<reqs, storeVars, now, dbUp, limiterVars, pool, subscriberPool,
                 testConn, listening, NODE_ENV, adminOps, env, poolsBuilt,
                 calls, checkedOut, pages>>

\* getConnectionString resolved: initializePool builds the pool, the promise
\* is fulfilled and testConnection starts its first attempt
initializePoolResolved ==
  /\ proc = "running"
  /\ initCalls > 0
  /\ \E fetch \in FetchOutcomes :
       getConnectionString(env, fetch) = "connection_string"
  /\ initCalls' = initCalls - 1
  /\ poolsBuilt' = poolsBuilt + 1
  /\ pool' = "Pool"
  /\ poolPromise' = "fulfilled"
  /\ testConn' = testConnectionCall("Pool", TestRetries, TestDelay)
  /\ UNCHANGED <<reqs, storeVars, now, dbUp, limiterVars, subscriberPool,
                 listening, NODE_ENV, adminOps, configVars, calls, checkedOut,
                 pages>>

\* getConnectionString threw (no configuration, or the remote fetch failed)
initializePoolRejected ==
  /\ proc = "running"
  /\ initCalls > 0
  /\ \E fetch \in FetchOutcomes :
       getConnectionString(env, fetch) # "connection_string"
  /\ initCalls' = initCalls - 1
  /\ poolPromise' = "rejected"
  /\ UNCHANGED <<reqs, storeVars, now, dbUp, limiterVars, pool, subscriberPool,
                 testConn, listening, NODE_ENV, adminOps, configVars, poolsBuilt,
                 calls, checkedOut, pages>>

\* what may happen to the test query of an attempt whose client was acquired
QueryOutcomes == {"ok", "lost"}

\* a loop that never gives up
testConnectionAttemptUnbounded ==
  /\ testConn.state = "connecting"
  /\ \E q \in QueryOutcomes :
       LET acquired == dbUp
           succeeded == dbUp /\ q = "ok"
       IN /\ checkedOut' = IF acquired /\ ~succeeded
                           THEN checkedOut + 1 ELSE checkedOut
          /\ testConn' =
               IF succeeded
               THEN [testConn EXCEPT !.state = "ok", !.attempts = @ + 1]
               ELSE [testConn EXCEPT !.state = "waiting", !.attempts = @ + 1]
  /\ UNCHANGED <<reqs, storeVars, now, dbUp, limiterVars, pool, poolPromise,
                 subscriberPool, listening, NODE_ENV, adminOps, configVars,
                 initCalls, poolsBuilt, calls, pages>>

\* one pass of the loop of testConnection: pool.connect(), SELECT 1,
\* client.release(); the catch block waits or gives up.  pool.connect fails
\* when the store is down; the query of an acquired client succeeds or fails
\* (the connection is lost, the statement is cancelled), and release is called
\* only after a query that succeeded
testConnectionAttempt ==
  /\ testConn.state = "connecting"
  /\ \E q \in QueryOutcomes :
       LET acquired == dbUp
           succeeded == dbUp /\ q = "ok"
       IN /\ checkedOut' = IF acquired /\ ~succeeded
                           THEN checkedOut + 1 ELSE checkedOut
          /\ testConn' =
               IF succeeded
               THEN [testConn EXCEPT !.state = "ok", !.attempts = @ + 1]
               ELSE IF testConn.i < testConn.retries - 1
               THEN [testConn EXCEPT !.state = "waiting", !.attempts = @ + 1]
               ELSE [testConn EXCEPT
                       !.state = "failed", !.attempts = @ + 1,
                       !.error = "[DB] Failed to connect to database after retries"]
  /\ UNCHANGED <<reqs, storeVars, now, dbUp, limiterVars, pool, poolPromise,
                 subscriberPool, listening, NODE_ENV, adminOps, configVars,
                 initCalls, poolsBuilt, calls, pages>>

\* the delay between two attempts has passed
testConnectionRetry ==
  /\ testConn.state = "waiting"
  /\ testConn' = [testConn EXCEPT !.state = "connecting", !.i = @ + 1,
                                  !.slept = @ + testConn.delay]
  /\ UNCHANGED <<reqs, storeVars, now, dbUp, limiterVars, pool, poolPromise,
                 subscriberPool, listening, NODE_ENV, adminOps, configVars,
                 poolVars, pages>>

\* server.ts, after its imports: the listener is bound
listen ==
  /\ proc = "running"
  /\ ~listening
  /\ listening' = TRUE
  /\ UNCHANGED <<reqs, storeVars, now, dbUp, limiterVars, pool, poolPromise,
                 subscriberPool, testConn, NODE_ENV, adminOps, configVars,
                 poolVars, pages>>

\* the import-time promise is rejected again by its catch handler; while
\* nothing awaits it the rejection is unhandled, and the runtime either only
\* warns or ends the process (the default of Node.js 15 and later).  The
\* listener was bound by then: app.listen runs in the same turn as the imports
unhandledRejection ==
  /\ proc = "running"
  /\ poolPromise = "rejected"
  /\ listening
  /\ \A c \in Calls : calls[c].state = "idle"
  /\ proc' = "exited"
  /\ listening' = FALSE
  /\ UNCHANGED <<reqs, storeVars, now, dbUp, limiterVars, pool, poolPromise,
                 subscriberPool, testConn, NODE_ENV, adminOps, env, poolVars,
                 pages>>

\* the client has its answer: the slot serves the next request
recycle(r) ==
  /\ Done(r)
  /\ reqs' = [reqs EXCEPT ![r] = Idle]
  /\ UNCHANGED <<storeVars, now, dbUp, limiterVars, startVars, adminOps>>

\* security.middleware.ts: the 15 minute window of the limiters has passed
windowReset ==
  /\ \E c \in Clients : apiHits[c] > 0
  /\ apiHits' = [c \in Clients |-> 0]
  /\ authHits' = [c \in Clients |-> 0]
  /\ UNCHANGED <<reqs, storeVars, now, dbUp, startVars, adminOps>>

(***************************************************************************)
(* Inputs.                                                                 *)
(***************************************************************************)
EmailUpper == <<"A", "@", "x", ".", "c", "o">>      \* "A@x.co"
EmailLower == <<"a", "@", "x", ".", "c", "o">>      \* "a@x.co"
EmailMixed == <<"U", "@", "X", ".", "c", "o">>      \* "U@X.co"
EmailNoTld == <<"a", "@", "x">>                     \* "a@x"
EmailNoAt == <<"a", "x", ".", "c", "o">>            \* "ax.co"

WaitlistBodies ==
  { Body({"email"}, <<>>, e, <<>>) : e \in {EmailUpper, EmailLower, EmailNoTld} }
  \cup { EmptyBody }

ValidEmails == {EmailUpper, EmailLower, EmailMixed}

NameOk == <<"A", "n">>
MessageOk == <<"h", "i">>

ContactBody(name, message) == Body({"name", "email", "message"}, name, EmailUpper, message)

ContactBodies ==
  { ContactBody(NameOk, MessageOk),
    ContactBody(<<" ", "n", " ">>, <<" ", "h", "i">>),
    ContactBody(<<>>, MessageOk),
    ContactBody(<<" ">>, MessageOk),
    ContactBody(Rep("n", NameMax), MessageOk),
    ContactBody(Rep("n", NameMax + 1), MessageOk),
    ContactBody(NameOk, <<>>),
    ContactBody(NameOk, <<" ", " ">>),
    Body({"email", "message"}, <<>>, EmailUpper, MessageOk),
    Body({"name", "message"}, NameOk, <<>>, MessageOk) }

WaitlistInputs ==
  { Input("c1", "POST", "/v1/waitlist/", CORS_ORIGIN, "ok", b) : b \in WaitlistBodies }

ContactInputs ==
  { Input("c1", "POST", "/v1/contact/", CORS_ORIGIN, "ok", b) : b \in ContactBodies }

HealthInputs ==
  { Input(c, "GET", "/health", CORS_ORIGIN, "ok", EmptyBody) : c \in Clients }

(***************************************************************************)
(* Specifications.                                                         *)
(***************************************************************************)
EmptyStore ==
  /\ subscribers = {}
  /\ subscribers_id_seq = 0
  /\ contact_messages = {}
  /\ contact_messages_id_seq = 0
  /\ now = 0

NoTraffic ==
  /\ reqs = [r \in Reqs |-> Idle]
  /\ apiHits = [c \in Clients |-> 0]
  /\ authHits = [c \in Clients |-> 0]
  /\ adminOps = 0
  /\ calls = [c \in Calls |-> IdleCall]
  /\ checkedOut = 0
  /\ pages = <<>>

\* the process has been started and serves: the pool was built at import time,
\* the start-up connectivity test is over, the listener is bound
Started ==
  /\ pool = "Pool"
  /\ poolPromise = "fulfilled"
  /\ testConn \in {TestedOk, TestedFailed}
  /\ listening = TRUE
  /\ env = {"CORS_ORIGIN", "DATABASE_URL"}
  /\ proc = "running"
  /\ initCalls = 0
  /\ poolsBuilt = 1

Pipeline(r) ==
  \/ securityHeaders(r)
  \/ bodyParser(r)
  \/ cors(r)
  \/ apiLimiter(r)
  \/ router(r)
  \/ authLimiter(r)
  \/ validate(r)
  \/ errorMiddleware(r)

\* the waitlist: subscribe requests, administrative deletes, store outages
Init ==
  /\ EmptyStore
  /\ NoTraffic
  /\ Started
  /\ dbUp \in BOOLEAN
  /\ subscriberPool \in {"undefined", "Pool"}
  /\ NODE_ENV = "development"

Next ==
  \/ \E r \in Reqs : \E in \in WaitlistInputs : NewRequest(r, in)
  \/ \E r \in Reqs : Pipeline(r)
  \/ \E r \in Reqs : subscribeToWaitlist(r)
  \/ \E r \in Reqs : addSubscriberQuery(r)
  \/ \E r \in Reqs : subscribeToWaitlistResume(r)
  \/ \E e \in ValidEmails : deleteSubscriberByEmail(e)
  \/ StoreFlips
  \/ Tick

Spec == Init /\ [][Next]_vars

\* the process serves, with the pool built or its initialization failed
StartedOrFailed ==
  \/ Started
  \/ /\ pool = "undefined"
     /\ poolPromise = "rejected"
     /\ testConn = NotTested
     /\ listening = TRUE
     /\ env = {"CORS_ORIGIN", "NEON_API_KEY", "NEON_PROJECT_ID"}
     /\ proc = "running"
     /\ initCalls = 0
     /\ poolsBuilt = 0

\* the contact form: contact submissions and store outages
InitContact ==
  /\ EmptyStore
  /\ NoTraffic
  /\ StartedOrFailed
  /\ dbUp \in BOOLEAN
  /\ subscriberPool = "undefined"
  /\ NODE_ENV = "development"

NextContact ==
  \/ \E r \in Reqs : \E in \in ContactInputs : NewRequest(r, in)
  \/ \E r \in Reqs : Pipeline(r)
  \/ \E r \in Reqs : submitContactMessage(r)
  \/ \E r \in Reqs : addContactMessageQuery(r)
  \/ \E r \in Reqs : submitContactMessageResume(r)
  \/ StoreFlips
  \/ Tick

SpecContact == InitContact /\ [][NextContact]_vars

\* start-up: from the moment the modules are loaded (initializePool waits for
\* the connection string, nothing listens yet), with health checks and contact
\* submissions arriving
StartupInputs ==
  { Input("c1", "GET", "/health", CORS_ORIGIN, "ok", EmptyBody),
    Input("c1", "POST", "/v1/contact/", CORS_ORIGIN, "ok", ContactBody(NameOk, MessageOk)) }

InitStartup ==
  /\ EmptyStore
  /\ NoTraffic
  /\ pool = "undefined"
  /\ poolPromise = "pending"
  /\ testConn = NotTested
  /\ listening = FALSE
  /\ env = {"CORS_ORIGIN", "NEON_API_KEY", "NEON_PROJECT_ID"}
  /\ proc = "running"
  /\ initCalls = 1
  /\ poolsBuilt = 0
  /\ dbUp \in BOOLEAN
  /\ subscriberPool = "undefined"
  /\ NODE_ENV = "development"

NextStartup ==
  \/ initializePoolResolved
  \/ initializePoolRejected
  \/ testConnectionAttempt
  \/ testConnectionRetry
  \/ listen
  \/ \E r \in Reqs : \E in \in StartupInputs : NewRequest(r, in)
  \/ \E r \in Reqs : Pipeline(r)
  \/ \E r \in Reqs : healthRoutes(r)
  \/ \E r \in Reqs : submitContactMessage(r)
  \/ \E r \in Reqs : addContactMessageQuery(r)
  \/ \E r \in Reqs : submitContactMessageResume(r)
  \/ StoreFlips

SpecStartup == InitStartup /\ [][NextStartup]_vars

\* the rate limiters: one request at a time, the slot reused, each client
\* sending until its first rejection in the window
LimiterInputs ==
  HealthInputs
  \cup { Input("c1", "POST", "/v1/waitlist/", CORS_ORIGIN, "ok",
                Body({"email"}, <<>>, EmailLower, <<>>)),
         Input("c1", "POST", "/v1/contact/", CORS_ORIGIN, "ok",
                ContactBody(NameOk, MessageOk)) }

NewRequestLimited(in) ==
  /\ apiHits[in.client] <= ApiMax
  /\ in.client # "c1" => apiHits[in.client] < MaxOther
  /\ Mount(in.path) # "/health" => authHits[in.client] < MaxPosts
  /\ Mount(in.path) = "/v1/waitlist" => subscribers_id_seq < MaxWrites
  /\ Mount(in.path) = "/v1/contact" => contact_messages_id_seq < MaxWrites
  /\ NewRequest(1, in)

InitLimiter ==
  /\ EmptyStore
  /\ NoTraffic
  /\ Started
  /\ dbUp \in BOOLEAN
  /\ subscriberPool = "Pool"
  /\ NODE_ENV = "development"

NextLimiter ==
  \/ \E in \in LimiterInputs : NewRequestLimited(in)
  \/ Pipeline(1)
  \/ healthRoutes(1)
  \/ subscribeToWaitlist(1)
  \/ addSubscriberQuery(1)
  \/ subscribeToWaitlistResume(1)
  \/ submitContactMessage(1)
  \/ addContactMessageQuery(1)
  \/ submitContactMessageResume(1)
  \/ recycle(1)
  \/ windowReset
  \/ StoreFlips

SpecLimiter == InitLimiter /\ [][NextLimiter]_vars

\* the limiters, client by client: the first client sends health checks and
\* contact submissions until both limiters have rejected it, the second client
\* submits contact messages in the same window
PerClientInputs ==
  { Input("c1", "GET", "/health", CORS_ORIGIN, "ok", EmptyBody),
    Input("c1", "POST", "/v1/contact/", CORS_ORIGIN, "ok", ContactBody(<<>>, MessageOk)),
    Input("c2", "POST", "/v1/contact/", CORS_ORIGIN, "ok", ContactBody(NameOk, MessageOk)) }

NewRequestPerClient(in) ==
  /\ apiHits[in.client] <= ApiMax
  /\ Mount(in.path) # "/health" => authHits[in.client] <= AuthMax
  /\ in.client # "c1" => apiHits[in.client] < MaxOther
  /\ in.client # "c1" => contact_messages_id_seq < MaxWrites
  /\ NewRequest(1, in)

InitPerClient ==
  /\ EmptyStore
  /\ NoTraffic
  /\ Started
  /\ dbUp \in BOOLEAN
  /\ subscriberPool = "Pool"
  /\ NODE_ENV = "development"

NextPerClient ==
  \/ \E in \in PerClientInputs : NewRequestPerClient(in)
  \/ Pipeline(1)
  \/ healthRoutes(1)
  \/ submitContactMessage(1)
  \/ addContactMessageQuery(1)
  \/ submitContactMessageResume(1)
  \/ recycle(1)
  \/ windowReset

SpecPerClient == InitPerClient /\ [][NextPerClient]_vars

\* the Origin headers a client may send: the configured origin, none, another
\* site, and the configured origin in another case, with another port, with
\* a trailing slash
NoOrigin == ""
OriginOther == "http://evil.com"
OriginUpper == "HTTP://LOCALHOST:3000"
OriginPort == "http://localhost:3001"
OriginSlash == "http://localhost:3000/"
Origins == {CORS_ORIGIN, NoOrigin, OriginOther, OriginUpper, OriginPort, OriginSlash}

\* the whole pipeline: health checks from every origin, contact submissions
\* (valid, invalid, from another origin, with a body that express.json rejects
\* as not being JSON or as larger than the limit), OPTIONS requests and
\* requests to paths that are not mounted
PipelineInputs ==
  { Input("c1", "GET", "/health", o, "ok", EmptyBody) : o \in Origins }
  \cup
  { Input("c1", "POST", "/v1/contact/", CORS_ORIGIN, "ok", ContactBody(NameOk, MessageOk)),
    Input("c1", "POST", "/v1/contact/", OriginOther, "ok", ContactBody(NameOk, MessageOk)),
    Input("c1", "POST", "/v1/contact/", CORS_ORIGIN, "entity.parse.failed",
          ContactBody(NameOk, MessageOk)),
    Input("c1", "POST", "/v1/contact/", OriginOther, "entity.too.large",
          ContactBody(NameOk, MessageOk)),
    Input("c1", "POST", "/v1/contact/", CORS_ORIGIN, "ok", ContactBody(<<>>, MessageOk)),
    Input("c1", "OPTIONS", "/v1/contact/", CORS_ORIGIN, "ok", EmptyBody),
    Input("c1", "OPTIONS", "/v1/contact/", OriginOther, "ok", EmptyBody),
    Input("c1", "OPTIONS", "/nope", NoOrigin, "ok", EmptyBody),
    Input("c1", "OPTIONS", "/v1/contact/", CORS_ORIGIN, "entity.parse.failed", EmptyBody),
    Input("c1", "GET", "/nope", CORS_ORIGIN, "ok", EmptyBody),
    Input("c1", "GET", "/v1/waitlist/", CORS_ORIGIN, "ok", EmptyBody) }

InitPipeline ==
  /\ EmptyStore
  /\ NoTraffic
  /\ Started
  /\ dbUp \in BOOLEAN
  /\ subscriberPool = "undefined"
  /\ NODE_ENV \in {"development", "production"}

NextPipeline ==
  \/ \E r \in Reqs : \E in \in PipelineInputs : NewRequest(r, in)
  \/ \E r \in Reqs : Pipeline(r)
  \/ \E r \in Reqs : notFound(r)
  \/ \E r \in Reqs : healthRoutes(r)
  \/ \E r \in Reqs : submitContactMessage(r)
  \/ \E r \in Reqs : addContactMessageQuery(r)
  \/ \E r \in Reqs : submitContactMessageResume(r)
  \/ StoreFlips

SpecPipeline == InitPipeline /\ [][NextPipeline]_vars

\* express runs the error-handling middleware as soon as next(err) is called
SpecPipelineFair ==
  SpecPipeline /\ \A r \in Reqs : WF_vars(errorMiddleware(r))

\* config/env.ts: NODE_ENV = process.env.NODE_ENV || 'development'
EnvOrDefault(raw) == IF raw = "" THEN "development" ELSE raw

\* the values of process.env.NODE_ENV ("" when it is not set)
RawEnvs == {"", "development", "production", "test", "staging"}

\* an error raised by body-parser: an http error with a status of its own,
\* not an ApiError
HttpError(statusCode, type, message) ==
  [isApiError |-> FALSE, statusCode |-> statusCode, code |-> type, message |-> message]

\* the errors a handler can pass to next(err): one ApiError of each class,
\* the failures of the driver and of the runtime, the failures of the parser
ErrorKinds ==
  { ValidationError("Name is required"),
    ValidationError("Invalid email format"),
    ConflictError("Email is already subscribed to the waitlist"),
    NotFoundError("Resource not found"),
    UnauthorizedError("Unauthorized"),
    UniqueViolation,
    ConnectionRefused,
    UndefinedPoolError,
    PoolInitError,
    StringTooLong,
    HttpError(400, "entity.parse.failed", "Unexpected token } in JSON at position 1"),
    HttpError(413, "entity.too.large", "request entity too large") }

\* a handler passes err to next(err): express skips to the error middleware
nextError(r, err) ==
  /\ listening
  /\ reqs[r].pc = "idle"
  /\ reqs' = [reqs EXCEPT ![r] =
       [Idle EXCEPT !.pc = "errorHandler", !.method = "POST",
                    !.path = "/v1/contact/", !.err = err,
                    !.startup = testConn.state,
                    !.after = {q \in Reqs : Done(q)}]]
  /\ UNCHANGED <<storeVars, now, dbUp, limiterVars, startVars, adminOps>>

\* the error middleware alone, on every kind of error and under every
\* environment name
InitErrorHandler ==
  /\ EmptyStore
  /\ NoTraffic
  /\ Started
  /\ dbUp \in BOOLEAN
  /\ subscriberPool = "undefined"
  /\ \E raw \in RawEnvs : NODE_ENV = EnvOrDefault(raw)

NextErrorHandler ==
  \/ \E r \in Reqs : \E err \in ErrorKinds : nextError(r, err)
  \/ \E r \in Reqs : errorMiddleware(r)

SpecErrorHandler == InitErrorHandler /\ [][NextErrorHandler]_vars

(***************************************************************************)
(* Vocabulary of the properties.                                           *)
(***************************************************************************)
InRan(r, stage) == \E i \in 1..Len(reqs[r].ran) : reqs[r].ran[i] = stage

\* a subscribe request, by what the client sent
SubscribeOf(r, e) ==
  /\ reqs[r].pc # "idle"
  /\ IsWaitlist(r)
  /\ reqs[r].method = "POST"
  /\ "email" \in reqs[r].raw.has
  /\ reqs[r].raw.email = e

\* a subscribe request without an e-mail, or with one that is not valid
InvalidSubscribe(r) ==
  /\ reqs[r].pc # "idle"
  /\ IsWaitlist(r)
  /\ reqs[r].method = "POST"
  /\ "email" \notin reqs[r].raw.has \/ ~IsEmail(reqs[r].raw.email)

\* a contact submission, and what the client sent as name and message
ContactOf(r) ==
  reqs[r].pc # "idle" /\ IsContact(r) /\ reqs[r].method = "POST"

BadName(r) ==
  "name" \in reqs[r].raw.has
    /\ (Len(reqs[r].raw.name) = 0 \/ Len(reqs[r].raw.name) > NameMax)

EmptyMessage(r) ==
  "message" \in reqs[r].raw.has /\ Len(reqs[r].raw.message) = 0

\* a health check
HealthOf(r) ==
  reqs[r].pc # "idle" /\ reqs[r].method = "GET" /\ Mount(reqs[r].path) = "/health"

\* the store executed the request's INSERT (it was reachable when asked)
Executed(r) == InRan(r, "query") /\ reqs[r].qres.err # ConnectionRefused

\* this step is the store executing the request's statement
QueryStep(r) == reqs[r].pc = "query" /\ reqs'[r].pc = "resume"

\* neither request was answered when the other arrived
Concurrent(r1, r2) ==
  r1 # r2 /\ r1 \notin reqs[r2].after /\ r2 \notin reqs[r1].after

\* two finished subscribe requests for e-mail e that were in flight together,
\* both executed by the store, no administrative operation having run and no
\* third request for e having reached the store
RacePair(r1, r2, e) ==
  /\ Concurrent(r1, r2)
  /\ SubscribeOf(r1, e) /\ SubscribeOf(r2, e)
  /\ Done(r1) /\ Done(r2)
  /\ Executed(r1) /\ Executed(r2)
  /\ \A q \in Reqs \ {r1, r2} : ~(SubscribeOf(q, e) /\ InRan(q, "query"))
  /\ adminOps = 0

Answered(r, status) == Done(r) /\ reqs[r].res.status = status

ConflictAnswer(r) ==
  /\ reqs[r].res.status = 409
  /\ reqs[r].res.shape = "error"
  /\ reqs[r].res.code = "CONFLICT"
  /\ reqs[r].res.message = "Email is already subscribed to the waitlist"

ValidationAnswer(r) ==
  /\ reqs[r].res.status = 400
  /\ reqs[r].res.shape = "error"
  /\ reqs[r].res.code = "VALIDATION_ERROR"

HealthOk(r) ==
  /\ reqs[r].res.status = 200
  /\ reqs[r].res.shape = "success"
  /\ reqs[r].res.data[1].status = "ok"

\* how many times a stage has run for the request
RanCount(r, stage) ==
  Cardinality({i \in 1..Len(reqs[r].ran) : reqs[r].ran[i] = stage})

\* an error was passed to next(err) for the request
Raised(r) == reqs[r].pc # "idle" /\ reqs[r].err # NoError

\* the body {success: true, data}: data present, no error, nothing else
SuccessEnvelope(res) ==
  /\ res.shape = "success"
  /\ Len(res.data) = 1
  /\ res.code = "" /\ res.message = ""

\* the body {success: false, error: {code, message}}: no data, an error with a
\* code and a message
ErrorEnvelope(res) ==
  /\ res.shape = "error"
  /\ res.data = <<>>
  /\ res.code # "" /\ res.message # ""

\* the answer of the origin check to an OPTIONS request: res.sendStatus(200)
BareOk == Response(200, "text", <<>>, "", "OK", FALSE)

\* the place of a stage in the chain that app.ts builds; the handlers that end
\* a request (a controller, the health route, the 404 handler) share a place,
\* and a controller's query and resumption follow it
StageRank(stage) ==
  CASE stage = "securityHeaders" -> 1
    [] stage = "bodyParser" -> 2
    [] stage = "cors" -> 3
    [] stage = "apiLimiter" -> 4
    [] stage = "router" -> 5
    [] stage = "authLimiter" -> 6
    [] stage = "validate" -> 7
    [] stage \in {"controller", "healthRoutes", "notFound"} -> 8
    [] stage = "query" -> 9
    [] stage = "resume" -> 10
    [] stage = "errorHandler" -> 11
    [] OTHER -> 0

\* the stage that must have completed before a stage may run
StageBefore(stage) ==
  CASE stage = "bodyParser" -> "securityHeaders"
    [] stage = "cors" -> "bodyParser"
    [] stage = "apiLimiter" -> "cors"
    [] stage = "router" -> "apiLimiter"
    [] stage = "authLimiter" -> "router"
    [] stage = "validate" -> "authLimiter"
    [] stage = "controller" -> "validate"
    [] stage = "healthRoutes" -> "router"
    [] stage = "notFound" -> "router"
    [] stage = "query" -> "controller"
    [] stage = "resume" -> "query"
    [] stage = "errorHandler" -> "bodyParser"
    [] OTHER -> stage

\* a request whose body express.json rejects (not JSON, or over the limit)
BadBody(r) == reqs[r].pc # "idle" /\ reqs[r].parse # "ok"

\* an OPTIONS request that has no body, or a body the parser accepts
Preflight(r) ==
  reqs[r].pc # "idle" /\ reqs[r].method = "OPTIONS" /\ reqs[r].parse = "ok"

\* the stages that follow body parsing, and those that follow the origin check
AfterBodyParser ==
  {"cors", "apiLimiter", "router", "authLimiter", "validate", "controller",
   "healthRoutes", "notFound", "query", "resume"}

AfterCors == AfterBodyParser \ {"cors"}

\* the request's method and path match no route: the routes are GET /health,
\* POST /v1/waitlist/ and POST /v1/contact/
NoRoute(r) ==
  /\ reqs[r].pc # "idle"
  /\ ~(reqs[r].method = "GET" /\ Mount(reqs[r].path) = "/health")
  /\ ~(reqs[r].method = "POST"
         /\ Mount(reqs[r].path) \in {"/v1/waitlist", "/v1/contact"})

\* the rows of an address, case ignored
RowsOf(e) == {row \in subscribers : toLowerCase(row.email) = toLowerCase(e)}

C6_InvalidEmailRejected ==
  /\ [](\A r \in Reqs :
          InvalidSubscribe(r) =>
            /\ ~InRan(r, "controller")
            /\ ~InRan(r, "query")
            /\ (Done(r) /\ InRan(r, "validate")) => ValidationAnswer(r))
  /\ [][\A r \in Reqs :
          (InvalidSubscribe(r) /\ reqs'[r] # reqs[r]) =>
            /\ subscribers' = subscribers
            /\ subscribers_id_seq' = subscribers_id_seq ]_vars

\* a body without e-mail and a body with a malformed e-mail were both rejected
C6_Witness ==
  \E r1, r2 \in Reqs :
    /\ InvalidSubscribe(r1) /\ Done(r1) /\ ValidationAnswer(r1)
    /\ "email" \notin reqs[r1].raw.has
    /\ InvalidSubscribe(r2) /\ Done(r2) /\ ValidationAnswer(r2)
    /\ "email" \in reqs[r2].raw.has

(***************************************************************************)
(* C7.  A contact submission whose name is empty or longer than 100        *)
(* characters, or whose message is empty, never reaches the controller or  *)
(* the data-access layer, is answered 400 VALIDATION_ERROR by the          *)
(* validation stage, and no step of it changes the contact_messages table. *)
(***************************************************************************)
C7_BadContactRejected ==
  /\ [](\A r \in Reqs :
          (ContactOf(r) /\ (BadName(r) \/ EmptyMessage(r))) =>
            /\ ~InRan(r, "controller")
            /\ ~InRan(r, "query")
            /\ (Done(r) /\ InRan(r, "validate")) => ValidationAnswer(r))
  /\ [][\A r \in Reqs :
          (ContactOf(r) /\ (BadName(r) \/ EmptyMessage(r)) /\ reqs'[r] # reqs[r]) =>
            /\ contact_messages' = contact_messages
            /\ contact_messages_id_seq' = contact_messages_id_seq ]_vars

\* a name of more than 100 characters and an empty message were both rejected
C7_Witness ==
  \E r1, r2 \in Reqs :
    /\ ContactOf(r1) /\ Len(reqs[r1].raw.name) > NameMax
    /\ Done(r1) /\ ValidationAnswer(r1)
    /\ ContactOf(r2) /\ EmptyMessage(r2) /\ ~BadName(r2)
    /\ Done(r2) /\ ValidationAnswer(r2)

(***************************************************************************)
(* C8.  Every contact_messages row has a name of 1 to 100 characters and a *)
(* message of 1 to 5000 characters, both trimmed, and a lowercase e-mail.  *)
(***************************************************************************)
C8_StoredRowsValid ==
  \A row \in contact_messages :
    /\ row.name = trim(row.name)
    /\ Len(row.name) >= 1 /\ Len(row.name) <= NameMax
    /\ row.message = trim(row.message)
    /\ Len(row.message) >= 1 /\ Len(row.message) <= MessageMax
    /\ row.email = toLowerCase(row.email)

(***************************************************************************)
(* C9.  Once every start-up connectivity attempt has failed the process    *)
(* does not serve: no request is accepted after the connectivity test has  *)
(* given up.                                                               *)
(***************************************************************************)
C9_NoTrafficAfterFailedStartup ==
  \A r \in Reqs : reqs[r].pc # "idle" => reqs[r].startup # "failed"

C11_RateLimitPerClient ==
  /\ [](\A r \in Reqs :
          (Done(r) /\ reqs[r].res.status = 429) =>
            /\ reqs[r].res = rateLimitResponse
            /\ ~InRan(r, "validate")
            /\ ~InRan(r, "controller")
            /\ ~InRan(r, "healthRoutes"))
  /\ [](\A r \in Reqs :
          /\ (InRan(r, "router") => InRan(r, "apiLimiter"))
          /\ ((ContactOf(r) /\ InRan(r, "validate")) => InRan(r, "authLimiter")))
  /\ [][\A r \in Reqs :
          /\ (reqs[r].pc = "apiLimiter" /\ reqs'[r].pc # "apiLimiter") =>
               /\ (reqs'[r].res.status = 429) <=> (apiHits[reqs[r].client] >= ApiMax)
               /\ \A c \in Clients \ {reqs[r].client} : apiHits'[c] = apiHits[c]
               /\ authHits' = authHits
          /\ (reqs[r].pc = "authLimiter" /\ reqs'[r].pc # "authLimiter") =>
               /\ (reqs'[r].res.status = 429) <=> (authHits[reqs[r].client] >= AuthMax)
               /\ \A c \in Clients \ {reqs[r].client} : authHits'[c] = authHits[c]
               /\ apiHits' = apiHits ]_vars

\* both limiters have rejected the first client, and in the same window the
\* second client's contact submission is answered 201
C11_Witness ==
  /\ apiHits["c1"] = ApiMax + 1
  /\ authHits["c1"] = AuthMax + 1
  /\ \E r \in Reqs :
       /\ reqs[r].client = "c2" /\ ContactOf(r)
       /\ Done(r) /\ reqs[r].res.status = 201

(***************************************************************************)
(* C12.  Every error passed to next(err) by body parsing, validation or a  *)
(* controller (data-access failures included) is handled by the error      *)
(* middleware exactly once: the middleware runs as the last stage, sends    *)
(* the response it computes from the error and forwards nothing; a request *)
(* that has its response never changes again; and every request with a     *)
(* raised error does get its response.                                     *)
(***************************************************************************)
C12_ErrorHandledOnce ==
  /\ [](\A r \in Reqs :
          /\ RanCount(r, "errorHandler") <= 1
          /\ InRan(r, "errorHandler") =>
               /\ Done(r)
               /\ Raised(r)
               /\ reqs[r].ran[Len(reqs[r].ran)] = "errorHandler"
               /\ reqs[r].res = errorHandler(reqs[r].err, NODE_ENV)
          /\ (Raised(r) /\ Done(r)) => RanCount(r, "errorHandler") = 1
          /\ Raised(r) => reqs[r].pc \in {"errorHandler", "done"})
  /\ [][\A r \in Reqs : Done(r) => reqs'[r] = reqs[r]]_vars
  /\ \A r \in Reqs : (Raised(r) ~> Done(r))

\* a validation error, a body the parser rejected and a failed INSERT were each
\* answered by the error middleware
C12_Witness ==
  \E r1, r2 \in Reqs :
    /\ Raised(r1) /\ Done(r1) /\ reqs[r1].qres.err = ConnectionRefused
    /\ reqs[r1].res.status = 500
    /\ Raised(r2) /\ Done(r2) /\ reqs[r2].err.code = "VALIDATION_ERROR"
    /\ reqs[r2].res.status = 400

C14_StackUnlessProduction ==
  \A r \in Reqs :
    InRan(r, "errorHandler") => (reqs[r].res.stack <=> NODE_ENV # "production")

(***************************************************************************)
(* C14, amended.  A response of the error middleware carries a stack trace *)
(* if and only if the environment name is exactly "development", which is  *)
(* also its value when NODE_ENV is not set: never in production, and not   *)
(* under any other name such as "test" or "staging" either.                *)
(***************************************************************************)
C14_StackOnlyInDevelopment ==
  \A r \in Reqs :
    InRan(r, "errorHandler") =>
      /\ reqs[r].res.stack <=> NODE_ENV = "development"
      /\ NODE_ENV = "production" => ~reqs[r].res.stack

\* under the environment name "test" an error was answered without a stack
C14_Witness ==
  /\ NODE_ENV = "test"
  /\ \E r \in Reqs :
       /\ Done(r) /\ InRan(r, "errorHandler")
       /\ reqs[r].res.status = 500
       /\ ~reqs[r].res.stack

(***************************************************************************)
(* C15 as claimed.  Every response other than a rate-limit rejection is    *)
(* {success: true, data} or {success: false, error: {code, message}} with  *)
(* no other top-level field, the answers to unmatched routes and to        *)
(* preflight requests included.                                            *)
(***************************************************************************)
C15_UniformEnvelope ==
  \A r \in Reqs :
    (Done(r) /\ reqs[r].res.shape # "rate_limit") =>
      /\ SuccessEnvelope(reqs[r].res) \/ ErrorEnvelope(reqs[r].res)
      /\ ~reqs[r].res.stack

(***************************************************************************)
(* C15, amended.  Every response other than a rate-limit rejection and the *)
(* answer to an OPTIONS request at the origin check is {success: true,     *)
(* data} or {success: false, error: {code, message}}; the only other       *)
(* top-level field is the stack, which the error middleware adds to its    *)
(* error responses when NODE_ENV is "development".  The answer to an       *)
(* OPTIONS request at the origin check is a bare 200 without the envelope. *)
(***************************************************************************)
C15_EnvelopeExceptPreflightAndStack ==
  \A r \in Reqs :
    (Done(r) /\ reqs[r].res.shape # "rate_limit") =>
      IF reqs[r].ran[Len(reqs[r].ran)] = "cors"
      THEN reqs[r].method = "OPTIONS" /\ reqs[r].res = BareOk
      ELSE /\ SuccessEnvelope(reqs[r].res) \/ ErrorEnvelope(reqs[r].res)
           /\ reqs[r].res.stack <=>
                (InRan(r, "errorHandler") /\ NODE_ENV = "development")
           /\ reqs[r].res.shape = "success" <=> reqs[r].res.status \in {200, 201}

\* in development a validation error was answered with the error envelope and
\* a stack, and an OPTIONS request with the bare 200
C15_Witness ==
  \E r1, r2 \in Reqs :
    /\ Done(r1) /\ ErrorEnvelope(reqs[r1].res) /\ reqs[r1].res.status = 400
    /\ reqs[r1].res.stack
    /\ Done(r2) /\ reqs[r2].method = "OPTIONS" /\ reqs[r2].res = BareOk

(***************************************************************************)
(* C16.  For every request the stages run in the one order security        *)
(* headers, body parsing, origin check, global rate limit, routing, strict *)
(* rate limit, validation, controller, error middleware: the stages that   *)
(* have run are in that order without repetition, a stage runs only after  *)
(* the stage before it has completed, a response has been sent exactly     *)
(* when the request is finished, and nothing runs for a finished request.  *)
(***************************************************************************)
C16_StageOrder ==
  /\ [](\A r \in Reqs :
          LET ran == reqs[r].ran
          IN /\ \A i, j \in 1..Len(ran) :
                  i < j => (0 < StageRank(ran[i]) /\ StageRank(ran[i]) < StageRank(ran[j]))
             /\ \A i \in 1..Len(ran) :
                  /\ StageRank(ran[i]) > 0
                  /\ i = 1 => ran[i] = "securityHeaders"
                  /\ i > 1 => \E k \in 1..(i - 1) : ran[k] = StageBefore(ran[i])
             /\ (reqs[r].res.shape # "none") <=> Done(r))
  /\ [][\A r \in Reqs : Done(r) => reqs'[r] = reqs[r]]_vars

\* one request ran every stage up to the controller and was answered 201,
\* another was answered by the origin check and ran nothing after it
C16_Witness ==
  \E r1, r2 \in Reqs :
    /\ Done(r1) /\ reqs[r1].res.status = 201
    /\ reqs[r1].ran = <<"securityHeaders", "bodyParser", "cors", "apiLimiter",
                        "router", "authLimiter", "validate", "controller",
                        "query", "resume">>
    /\ Done(r2) /\ reqs[r2].ran = <<"securityHeaders", "bodyParser", "cors">>

(***************************************************************************)
(* C17.  A request whose body is malformed or larger than the limit fails  *)
(* at the body-parsing stage: no later stage (origin check, rate limiting, *)
(* routing, validation, controller, data access) runs for it, it is        *)
(* answered with an error response, and no step of it creates a row or     *)
(* changes a rate-limit counter.                                           *)
(***************************************************************************)
C17_BadBodyStopsAtParser ==
  /\ [](\A r \in Reqs :
          BadBody(r) =>
            /\ \A stage \in AfterBodyParser : ~InRan(r, stage)
            /\ Done(r) => (ErrorEnvelope(reqs[r].res) /\ reqs[r].res.status >= 400))
  /\ [][\A r \in Reqs :
          (BadBody(r) /\ reqs'[r] # reqs[r]) =>
            /\ UNCHANGED storeVars
            /\ UNCHANGED limiterVars ]_vars

\* a body that is not JSON and a body over the limit were both answered with an
\* error, with no request counted and no row stored
C17_Witness ==
  \E r1, r2 \in Reqs :
    /\ Done(r1) /\ reqs[r1].parse = "entity.parse.failed"
    /\ ErrorEnvelope(reqs[r1].res)
    /\ Done(r2) /\ reqs[r2].parse = "entity.too.large"
    /\ ErrorEnvelope(reqs[r2].res)
    /\ apiHits["c1"] = 0
    /\ contact_messages = {}

(***************************************************************************)
(* C18 as claimed.  Every OPTIONS request, to any path and from any        *)
(* origin, is answered by the origin check with a bare 200.                *)
(***************************************************************************)
C18_EveryOptionsGetsBareOk ==
  \A r \in Reqs :
    (reqs[r].pc # "idle" /\ reqs[r].method = "OPTIONS" /\ Done(r)) =>
      /\ reqs[r].res = BareOk
      /\ reqs[r].ran[Len(reqs[r].ran)] = "cors"

(***************************************************************************)
(* C18, amended.  An OPTIONS request to any path that passes body parsing  *)
(* (it has no body, or a body the parser accepts) is answered by the       *)
(* origin check with a bare 200 whether or not its origin matches the      *)
(* configured origin: no stage after the origin check (rate limiting,      *)
(* routing, validation, controller) runs for it, and no step of it changes *)
(* the store or a rate-limit counter.  An OPTIONS request whose body the   *)
(* parser rejects never reaches the origin check (C17).                    *)
(***************************************************************************)
C18_PreflightShortCircuits ==
  /\ [](\A r \in Reqs :
          Preflight(r) =>
            /\ \A stage \in AfterCors \cup {"errorHandler"} : ~InRan(r, stage)
            /\ Done(r) => (reqs[r].res = BareOk
                             /\ reqs[r].ran[Len(reqs[r].ran)] = "cors"))
  /\ [][\A r \in Reqs :
          (Preflight(r) /\ reqs'[r] # reqs[r]) =>
            /\ UNCHANGED storeVars
            /\ UNCHANGED limiterVars ]_vars

\* a preflight from the configured origin, and one from another origin to a
\* path that is not mounted or is mounted, were both answered with the bare 200
C18_Witness ==
  \E r1, r2 \in Reqs :
    /\ Preflight(r1) /\ Done(r1) /\ reqs[r1].origin = CORS_ORIGIN
    /\ reqs[r1].res = BareOk
    /\ Preflight(r2) /\ Done(r2) /\ reqs[r2].origin # CORS_ORIGIN
    /\ reqs[r2].res = BareOk
    /\ apiHits["c1"] = 0

(***************************************************************************)
(* C19 as claimed.  A response carries the permissive cross-origin headers *)
(* if and only if the request's Origin header is exactly the configured    *)
(* CORS_ORIGIN.                                                            *)
(***************************************************************************)
C19_HeadersIffOriginMatches ==
  \A r \in Reqs :
    Done(r) => (reqs[r].cors <=> reqs[r].origin = CORS_ORIGIN)

(***************************************************************************)
(* C19, amended.  A response carries the permissive cross-origin headers   *)
(* if and only if the request reached the origin check (its body passed    *)
(* body parsing) and its Origin header is exactly the configured           *)
(* CORS_ORIGIN: a missing Origin, another origin, or the configured origin *)
(* in another case, with another port or with a trailing slash gets none,  *)
(* and neither does the error response to a body the parser rejected, even *)
(* from the configured origin.                                             *)
(***************************************************************************)
C19_HeadersIffOriginCheckedAndMatches ==
  \A r \in Reqs :
    /\ reqs[r].cors => (InRan(r, "cors") /\ reqs[r].origin = CORS_ORIGIN)
    /\ Done(r) =>
         /\ reqs[r].cors <=> (InRan(r, "cors") /\ reqs[r].origin = CORS_ORIGIN)
         /\ InRan(r, "cors") <=> reqs[r].parse = "ok"

\* the configured origin got the headers; the same origin in upper case did not
C19_Witness ==
  \E r1, r2 \in Reqs :
    /\ Done(r1) /\ reqs[r1].origin = CORS_ORIGIN /\ reqs[r1].cors
    /\ Done(r2) /\ reqs[r2].origin = OriginUpper /\ ~reqs[r2].cors
    /\ InRan(r2, "cors")

(***************************************************************************)
(* C20.  Only requests from the configured origin are allowed: a request   *)
(* other than OPTIONS whose Origin header is not the configured            *)
(* CORS_ORIGIN never reaches validation or a controller and never creates  *)
(* a row.                                                                  *)
(***************************************************************************)
C20_ForeignOriginBlocked ==
  \A r \in Reqs :
    ( /\ reqs[r].pc # "idle"
      /\ reqs[r].method # "OPTIONS"
      /\ reqs[r].origin # CORS_ORIGIN ) =>
      /\ ~InRan(r, "validate")
      /\ ~InRan(r, "controller")
      /\ ~(InRan(r, "query") /\ reqs[r].qres.err = NoError)

(***************************************************************************)
(* C21 as claimed.  Every request whose method and path match no route is  *)
(* answered 404 with {success: false, error: {code: "NOT_FOUND", message:  *)
(* "Route not found"}}.                                                    *)
(***************************************************************************)
C21_NoRouteAlways404 ==
  \A r \in Reqs : (NoRoute(r) /\ Done(r)) => reqs[r].res = notFoundResponse

(***************************************************************************)
(* C21, amended.  A request whose method and path match no route (a wrong  *)
(* method on an existing path included) never invokes validation, a        *)
(* controller or the error middleware unless its body failed to parse, and *)
(* no step of it changes the store; if it reaches routing and is admitted  *)
(* by the limiters it is answered by the 404 handler with {success: false, *)
(* error: {code: "NOT_FOUND", message: "Route not found"}}.  An earlier    *)
(* stage answers it otherwise: the parser's error gives 500, the origin    *)
(* check answers OPTIONS with the bare 200, a limiter answers 429.         *)
(***************************************************************************)
C21_NoRoute404WhenRouted ==
  /\ [](\A r \in Reqs :
          NoRoute(r) =>
            /\ ~InRan(r, "validate")
            /\ ~InRan(r, "controller")
            /\ ~InRan(r, "query")
            /\ InRan(r, "errorHandler") => reqs[r].parse # "ok"
            /\ Done(r) =>
                 CASE reqs[r].parse # "ok" -> reqs[r].res.status = 500
                   [] reqs[r].parse = "ok" /\ reqs[r].method = "OPTIONS" ->
                        reqs[r].res = BareOk
                   [] OTHER ->
                        \/ reqs[r].res = rateLimitResponse
                        \/ /\ reqs[r].res = notFoundResponse
                           /\ reqs[r].ran[Len(reqs[r].ran)] = "notFound")
  /\ [][\A r \in Reqs :
          (NoRoute(r) /\ reqs'[r] # reqs[r]) => UNCHANGED storeVars ]_vars

\* GET /v1/waitlist/ and a request to a path that is not mounted were both
\* answered by the 404 handler
C21_Witness ==
  \E r1, r2 \in Reqs :
    /\ Done(r1) /\ reqs[r1].method = "GET" /\ IsWaitlist(r1)
    /\ reqs[r1].res = notFoundResponse
    /\ Done(r2) /\ Mount(reqs[r2].path) = "none" /\ reqs[r2].method = "GET"
    /\ reqs[r2].res = notFoundResponse

(***************************************************************************)
(* Start-up under every environment: from the moment the process is        *)
(* started with some of the variables set, nothing imported yet.           *)
(***************************************************************************)
InitConfig ==
  /\ EmptyStore
  /\ NoTraffic
  /\ proc = "loading"
  /\ env \in SUBSET EnvNames
  /\ pool = "undefined"
  /\ poolPromise = "undefined"
  /\ initCalls = 0
  /\ poolsBuilt = 0
  /\ testConn = NotTested
  /\ listening = FALSE
  /\ dbUp \in BOOLEAN
  /\ subscriberPool = "undefined"
  /\ NODE_ENV = "development"

NextConfig ==
  \/ loadModules
  \/ initializePoolResolved
  \/ initializePoolRejected
  \/ testConnectionAttempt
  \/ testConnectionRetry
  \/ listen
  \/ unhandledRejection
  \/ StoreFlips

SpecConfig == InitConfig /\ [][NextConfig]_vars

\* a mandatory value is missing: the allowed origin, or a usable store
\* configuration (a connection string, or the API key with the project
\* identifier)
MissingMandatory ==
  \/ "CORS_ORIGIN" \notin env
  \/ /\ "DATABASE_URL" \notin env
     /\ ~({"NEON_API_KEY", "NEON_PROJECT_ID"} \subseteq env)

(***************************************************************************)
(* C22.  Whenever a mandatory value is missing (the allowed origin, or a   *)
(* usable store configuration: neither a connection string nor a complete  *)
(* API key plus project identifier pair), the process ends during start-up *)
(* and never begins listening.                                             *)
(***************************************************************************)
C22_FailsFastWhenMisconfigured ==
  MissingMandatory => ~listening

(***************************************************************************)
(* Listing.  ORDER BY created_at DESC LIMIT $1 OFFSET $2: the store sorts  *)
(* the rows by created_at alone, so rows of equal created_at come in an    *)
(* order the store chooses anew for every query.                           *)
(***************************************************************************)
\* the orders in which the store may return rows for ORDER BY created_at DESC
NewestFirst(rows) ==
  { order \in [1..Cardinality(rows) -> rows] :
      /\ \A i, j \in 1..Cardinality(rows) : i # j => order[i] # order[j]
      /\ \A i, j \in 1..Cardinality(rows) :
           i < j => order[i].created_at >= order[j].created_at }

\* LIMIT limit OFFSET offset of the ordered rows
LimitOffset(order, limit, offset) ==
  SubSeq(order, offset + 1,
         IF offset + limit < Len(order) THEN offset + limit ELSE Len(order))

ListedPage(table, limit, offset, err, rows) ==
  [table |-> table, limit |-> limit, offset |-> offset, err |-> err,
   rows |-> rows]

\* subscriber.model.ts getAllSubscribers(limit, offset), on the module's
\* imported pool binding
getAllSubscribers(limit, offset) ==
  /\ Len(pages) < MaxPages
  /\ \E order \in NewestFirst(subscribers) :
       pages' = Append(pages,
         IF subscriberPool = "undefined"
         THEN ListedPage("subscribers", limit, offset, UndefinedPoolError, <<>>)
         ELSE IF ~dbUp
         THEN ListedPage("subscribers", limit, offset, ConnectionRefused, <<>>)
         ELSE ListedPage("subscribers", limit, offset, NoError,
                         LimitOffset(order, limit, offset)))
  /\ UNCHANGED <<reqs, storeVars, now, dbUp, limiterVars, pool, poolPromise,
                 subscriberPool, testConn, listening, NODE_ENV, adminOps,
                 configVars, poolVars>>

\* contact.model.ts getContactMessages(limit, offset), on the pool of getPool
getContactMessages(limit, offset) ==
  /\ Len(pages) < MaxPages
  /\ pool # "undefined"
  /\ \E order \in NewestFirst(contact_messages) :
       pages' = Append(pages,
         IF ~dbUp
         THEN ListedPage("contact_messages", limit, offset, ConnectionRefused, <<>>)
         ELSE ListedPage("contact_messages", limit, offset, NoError,
                         LimitOffset(order, limit, offset)))
  /\ UNCHANGED <<reqs, storeVars, now, dbUp, limiterVars, pool, poolPromise,
                 subscriberPool, testConn, listening, NODE_ENV, adminOps,
                 configVars, poolVars>>

\* two rows in each table, the second inserted no earlier than the first,
\* and no write: only listings
InitListing ==
  /\ NoTraffic
  /\ Started
  /\ dbUp = TRUE
  /\ subscriberPool \in {"undefined", "Pool"}
  /\ NODE_ENV = "development"
  /\ now = MaxTime
  /\ \E t1, t2 \in 0..MaxTime :
       /\ t1 <= t2
       /\ subscribers = {SubscriberRow(1, EmailLower, t1),
                         SubscriberRow(2, toLowerCase(EmailMixed), t2)}
       /\ contact_messages =
            {ContactRow(1, NameOk, EmailUpper, MessageOk, t1),
             ContactRow(2, NameOk, EmailUpper, MessageOk, t2)}
  /\ subscribers_id_seq = 2
  /\ contact_messages_id_seq = 2

NextListing ==
  \/ \E limit \in 1..MaxLimit : \E offset \in 0..MaxLimit :
       getAllSubscribers(limit, offset)
  \/ \E limit \in 1..MaxLimit : \E offset \in 0..MaxLimit :
       getContactMessages(limit, offset)

SpecListing == InitListing /\ [][NextListing]_vars

\* the rows of table, as the store holds them
TableRows(table) ==
  IF table = "subscribers" THEN subscribers ELSE contact_messages

(***************************************************************************)
(* C23.  With exactly two rows in a table and no write in between, listing *)
(* with limit 1, offset 0 and then limit 1, offset 1 returns the two rows  *)
(* newest first, each row on exactly one page, whatever the two creation   *)
(* timestamps are, equal timestamps included.  (Stated of two listings that *)
(* both succeeded.)                                                        *)
(***************************************************************************)
C23_TwoPagesCoverBothRows ==
  \A k \in 1..(Len(pages) - 1) :
    LET first == pages[k]
        second == pages[k + 1]
    IN ( /\ first.table = second.table
         /\ first.limit = 1 /\ first.offset = 0
         /\ second.limit = 1 /\ second.offset = 1
         /\ first.err = NoError /\ second.err = NoError ) =>
         /\ Len(first.rows) = 1 /\ Len(second.rows) = 1
         /\ first.rows[1] # second.rows[1]
         /\ {first.rows[1], second.rows[1]} = TableRows(first.table)
         /\ first.rows[1].created_at >= second.rows[1].created_at

(***************************************************************************)
(* Both stores with the administrative utilities: subscribe requests,      *)
(* contact submissions, store outages, and an administrator clearing the   *)
(* data or resetting the id sequences.                                     *)
(***************************************************************************)
\* database utilities, clearDatabase: DELETE FROM contact_messages, then
\* DELETE FROM subscribers, on the pool of getPool
clearDatabase ==
  /\ adminOps < MaxAdmin
  /\ adminOps' = adminOps + 1
  /\ IF pool # "undefined" /\ dbUp
     THEN subscribers' = {} /\ contact_messages' = {}
     ELSE UNCHANGED <<subscribers, contact_messages>>
  /\ UNCHANGED <<reqs, subscribers_id_seq, contact_messages_id_seq, now, dbUp,
                 limiterVars, startVars>>

\* database utilities, resetSequences: ALTER SEQUENCE ... RESTART WITH 1 for
\* both sequences; the rows stay
resetSequences ==
  /\ adminOps < MaxAdmin
  /\ adminOps' = adminOps + 1
  /\ IF pool # "undefined" /\ dbUp
     THEN subscribers_id_seq' = 0 /\ contact_messages_id_seq' = 0
     ELSE UNCHANGED <<subscribers_id_seq, contact_messages_id_seq>>
  /\ UNCHANGED <<reqs, subscribers, contact_messages, now, dbUp, limiterVars,
                 startVars>>

StoreInputs ==
  { Input("c1", "POST", "/v1/waitlist/", CORS_ORIGIN, "ok",
          Body({"email"}, <<>>, e, <<>>)) : e \in {EmailLower, EmailMixed} }
  \cup { Input("c1", "POST", "/v1/contact/", CORS_ORIGIN, "ok",
               ContactBody(NameOk, MessageOk)) }

InitStore ==
  /\ EmptyStore
  /\ NoTraffic
  /\ StartedOrFailed
  /\ dbUp \in BOOLEAN
  /\ subscriberPool \in {"undefined", "Pool"}
  /\ NODE_ENV = "development"

NextStore ==
  \/ \E r \in Reqs : \E in \in StoreInputs : NewRequest(r, in)
  \/ \E r \in Reqs : Pipeline(r)
  \/ \E r \in Reqs : subscribeToWaitlist(r)
  \/ \E r \in Reqs : addSubscriberQuery(r)
  \/ \E r \in Reqs : subscribeToWaitlistResume(r)
  \/ \E r \in Reqs : submitContactMessage(r)
  \/ \E r \in Reqs : addContactMessageQuery(r)
  \/ \E r \in Reqs : submitContactMessageResume(r)
  \/ clearDatabase
  \/ resetSequences
  \/ StoreFlips

SpecStore == InitStore /\ [][NextStore]_vars

\* the storage failure met by a creation request: the error of its pool
\* handle, or the error the store answered its statement with
StorageFailure(r) ==
  IF InRan(r, "query") THEN reqs[r].qres.err
  ELSE IF InRan(r, "controller") /\ ~InRan(r, "resume") /\ reqs[r].pc # "query"
  THEN reqs[r].err
  ELSE NoError

\* the failure is one the data-access layer does not classify
Unclassified(r) ==
  /\ reqs[r].pc # "idle"
  /\ StorageFailure(r) # NoError
  /\ IsContact(r) \/ StorageFailure(r) # UniqueViolation

(***************************************************************************)
(* C24.  The data-access layer classifies only the uniqueness violation:   *)
(* every other storage failure in subscriber creation, and every storage   *)
(* failure in contact-message creation, reaches the error middleware       *)
(* unchanged, the client receives 500 INTERNAL_ERROR, and the failed       *)
(* statement created no row.                                               *)
(***************************************************************************)
C24_OtherFailuresPropagate ==
  /\ [](\A r \in Reqs :
          Unclassified(r) =>
            /\ reqs[r].pc \in {"resume", "errorHandler", "done"}
            /\ reqs[r].pc # "resume" => reqs[r].err = StorageFailure(r)
            /\ Done(r) =>
                 /\ reqs[r].ran[Len(reqs[r].ran)] = "errorHandler"
                 /\ reqs[r].res.status = 500
                 /\ reqs[r].res.code = "INTERNAL_ERROR"
                 /\ ErrorEnvelope(reqs[r].res))
  /\ [][\A r \in Reqs :
          (QueryStep(r) /\ reqs'[r].qres.err # NoError)
            => UNCHANGED <<subscribers, contact_messages>> ]_vars

\* a subscribe request and a contact submission both met a store that
\* refused the connection and were answered 500
C24_Witness ==
  \E r1, r2 \in Reqs :
    /\ IsWaitlist(r1) /\ Done(r1) /\ InRan(r1, "query")
    /\ reqs[r1].qres.err = ConnectionRefused /\ reqs[r1].res.status = 500
    /\ IsContact(r2) /\ Done(r2) /\ InRan(r2, "query")
    /\ reqs[r2].qres.err = ConnectionRefused /\ reqs[r2].res.status = 500

C25_NoQueryOnUndefinedPool ==
  \A r \in Reqs :
    (reqs[r].pc # "idle" /\ InRan(r, "controller")) =>
      /\ reqs[r].err # UndefinedPoolError
      /\ IsWaitlist(r) => subscriberPool = "Pool"
      /\ (IsContact(r) /\ InRan(r, "query")) => pool = "Pool"

(***************************************************************************)
(* config/db.ts getPool, called by the data-access layer at any moment     *)
(* after the module was loaded.                                            *)
(***************************************************************************)
\* the call c was made when the module state was at ("pool": the pool was
\* built; otherwise the state of poolPromise)
MadeCall(state, at, got, err) ==
  [state |-> state, at |-> at, got |-> got, err |-> err]

\* a getPool that starts an initialization whenever there is no pool yet
getPoolAlwaysInitializes(c) ==
  /\ proc = "running"
  /\ calls[c].state = "idle"
  /\ IF pool # "undefined"
     THEN /\ calls' = [calls EXCEPT ![c] =
                         MadeCall("resolved", "pool", poolsBuilt, NoError)]
          /\ UNCHANGED <<poolPromise, initCalls>>
     ELSE /\ calls' = [calls EXCEPT ![c] =
                         MadeCall("waiting", poolPromise, 0, NoError)]
          /\ poolPromise' = "pending"
          /\ initCalls' = initCalls + 1
  /\ UNCHANGED <<reqs, storeVars, now, dbUp, limiterVars, pool, subscriberPool,
                 testConn, listening, NODE_ENV, adminOps, configVars,
                 poolsBuilt, checkedOut, pages>>

\* a getPool that initializes again once the promise was rejected
getPoolRetriesAfterFailure(c) ==
  /\ proc = "running"
  /\ calls[c].state = "idle"
  /\ IF pool # "undefined"
     THEN /\ calls' = [calls EXCEPT ![c] =
                         MadeCall("resolved", "pool", poolsBuilt, NoError)]
          /\ UNCHANGED <<poolPromise, initCalls>>
     ELSE /\ calls' = [calls EXCEPT ![c] =
                         MadeCall("waiting", poolPromise, 0, NoError)]
          /\ IF poolPromise \in {"undefined", "rejected"}
             THEN poolPromise' = "pending" /\ initCalls' = initCalls + 1
             ELSE UNCHANGED <<poolPromise, initCalls>>
  /\ UNCHANGED <<reqs, storeVars, now, dbUp, limiterVars, pool, subscriberPool,
                 testConn, listening, NODE_ENV, adminOps, configVars,
                 poolsBuilt, checkedOut, pages>>

\* getPool up to its return: the pool if there is one; otherwise poolPromise,
\* after starting an initialization if there is no promise yet
getPool(c) ==
  /\ proc = "running"
  /\ calls[c].state = "idle"
  /\ IF pool # "undefined"
     THEN /\ calls' = [calls EXCEPT ![c] =
                         MadeCall("resolved", "pool", poolsBuilt, NoError)]
          /\ UNCHANGED <<poolPromise, initCalls>>
     ELSE /\ calls' = [calls EXCEPT ![c] =
                         MadeCall("waiting", poolPromise, 0, NoError)]
          /\ IF poolPromise = "undefined"
             THEN poolPromise' = "pending" /\ initCalls' = initCalls + 1
             ELSE UNCHANGED <<poolPromise, initCalls>>
  /\ UNCHANGED <<reqs, storeVars, now, dbUp, limiterVars, pool, subscriberPool,
                 testConn, listening, NODE_ENV, adminOps, configVars,
                 poolsBuilt, checkedOut, pages>>

\* the promise a caller awaits is settled: the caller resumes with the pool
\* or with the error of the initialization
getPoolSettles(c) ==
  /\ calls[c].state = "waiting"
  /\ poolPromise \in {"fulfilled", "rejected"}
  /\ calls' = [calls EXCEPT ![c] =
       IF poolPromise = "fulfilled"
       THEN [@ EXCEPT !.state = "resolved", !.got = poolsBuilt]
       ELSE [@ EXCEPT !.state = "rejected", !.err = PoolInitError]]
  /\ UNCHANGED <<reqs, storeVars, now, dbUp, limiterVars, pool, poolPromise,
                 subscriberPool, testConn, listening, NODE_ENV, adminOps,
                 configVars, initCalls, poolsBuilt, checkedOut, pages>>

\* the caller is done with what it got; the slot stands for the next call
getPoolReturned(c) ==
  /\ calls[c].state \in {"resolved", "rejected"}
  /\ calls' = [calls EXCEPT ![c] = IdleCall]
  /\ UNCHANGED <<reqs, storeVars, now, dbUp, limiterVars, pool, poolPromise,
                 subscriberPool, testConn, listening, NODE_ENV, adminOps,
                 configVars, initCalls, poolsBuilt, checkedOut, pages>>

\* the modules are loaded and the listener is bound; the import-time
\* initialization waits for the connection string (DATABASE_URL, or the
\* answer of the Neon API)
InitPool ==
  /\ EmptyStore
  /\ NoTraffic
  /\ proc = "running"
  /\ env \in {{"CORS_ORIGIN", "DATABASE_URL"},
              {"CORS_ORIGIN", "NEON_API_KEY", "NEON_PROJECT_ID"}}
  /\ pool = "undefined"
  /\ poolPromise = "pending"
  /\ initCalls = 1
  /\ poolsBuilt = 0
  /\ testConn = NotTested
  /\ listening = TRUE
  /\ dbUp \in BOOLEAN
  /\ subscriberPool = "undefined"
  /\ NODE_ENV = "development"

NextPool ==
  \/ initializePoolResolved
  \/ initializePoolRejected
  \/ \E c \in Calls : getPool(c)
  \/ \E c \in Calls : getPoolSettles(c)
  \/ \E c \in Calls : getPoolReturned(c)
  \/ testConnectionAttempt
  \/ testConnectionRetry
  \/ unhandledRejection

SpecPool == InitPool /\ [][NextPool]_vars

\* a settled promise runs the continuations of its awaiters
SpecPoolFair == SpecPool /\ \A c \in Calls : WF_vars(getPoolSettles(c))

(***************************************************************************)
(* C26.  At most one connection pool is constructed per process: under any *)
(* interleaving of the import-time initialization and getPool calls (calls *)
(* made while the connection string is being fetched included) a single    *)
(* initialization runs, and every getPool call that resolves returns the   *)
(* same pool instance.                                                     *)
(***************************************************************************)
C26_OnePool ==
  /\ poolsBuilt <= 1
  /\ initCalls + poolsBuilt <= 1
  /\ \A c \in Calls : calls[c].state = "resolved" => calls[c].got = 1
  /\ pool = "Pool" <=> poolsBuilt = 1

\* one call made while the connection string was being fetched and one made
\* after the pool was built have both resolved
C26_Witness ==
  \E c1, c2 \in Calls :
    /\ calls[c1].state = "resolved" /\ calls[c1].at = "pending"
    /\ calls[c2].state = "resolved" /\ calls[c2].at = "pool"

(***************************************************************************)
(* C27.  Once the import-time initialization has failed it is never        *)
(* attempted again: the promise stays rejected, no pool is ever            *)
(* constructed, and every later getPool call rejects with the error of     *)
(* the initialization.                                                     *)
(***************************************************************************)
C27_FailedInitIsFinal ==
  /\ [](poolPromise = "rejected" =>
          /\ pool = "undefined"
          /\ poolsBuilt = 0
          /\ initCalls = 0
          /\ \A c \in Calls :
               /\ calls[c].state # "resolved"
               /\ calls[c].state = "rejected" => calls[c].err = PoolInitError)
  /\ [][poolPromise = "rejected" => poolPromise' = "rejected"]_vars
  /\ \A c \in Calls :
       (calls[c].state = "waiting" /\ poolPromise = "rejected")
         ~> (calls[c].state = "rejected")

\* a call made after the initialization had failed was rejected
C27_Witness ==
  \E c \in Calls :
    /\ calls[c].state = "rejected"
    /\ calls[c].at = "rejected"
    /\ calls[c].err = PoolInitError

(***************************************************************************)
(* testConnection(retries, delay) for every retry count and delay, on a    *)
(* pool that was built, against a store that goes down and comes back.     *)
(***************************************************************************)
Delays == {0, 1000, TestDelay}

\* testConnection is called with the arguments retries and delay
testConnection(retries, delay) ==
  /\ testConn.state = "not_started"
  /\ testConn' = testConnectionCall(pool, retries, delay)
  /\ UNCHANGED <<reqs, storeVars, now, dbUp, limiterVars, pool, poolPromise,
                 subscriberPool, listening, NODE_ENV, adminOps, configVars,
                 poolVars, pages>>

InitTestConnection ==
  /\ EmptyStore
  /\ NoTraffic
  /\ pool = "Pool"
  /\ poolPromise = "fulfilled"
  /\ testConn = NotTested
  /\ listening = TRUE
  /\ env = {"CORS_ORIGIN", "DATABASE_URL"}
  /\ proc = "running"
  /\ initCalls = 0
  /\ poolsBuilt = 1
  /\ dbUp \in BOOLEAN
  /\ subscriberPool = "undefined"
  /\ NODE_ENV = "development"

NextTestConnection ==
  \/ \E retries \in 0..MaxRetries : \E delay \in Delays :
       testConnection(retries, delay)
  \/ testConnectionAttempt
  \/ testConnectionRetry
  \/ StoreFlips

SpecTestConnection == InitTestConnection /\ [][NextTestConnection]_vars

\* this step is an attempt of testConnection
AttemptStep == testConn.state = "connecting" /\ testConn'.state # "connecting"

\* this step is an attempt that acquired a client and ran the test query
SucceededStep == AttemptStep /\ testConn'.state = "ok"

C29_ClientsReleased ==
  testConn.state \in {"ok", "failed"} => checkedOut = 0

====
